---- MODULE Spec2Model ----
(***************************************************************************)
(* BTP window state of libs/matter-btp (framing.rs): the sliding-window    *)
(* bookkeeping of a BTP connection (PacketWindowState, BtpWindowState),    *)
(* driven either directly through its two public operations                *)
(* (specification Spec) or as a client/server pair exchanging the frames   *)
(* that prepare_send produces (specification PairSpec).                    *)
(*                                                                         *)
(* Instants and Durations are integers in milliseconds.  u8 values are     *)
(* integers in 0..255 and every u8 operation is reduced modulo U8.         *)
(***************************************************************************)
EXTENDS Integers, Sequences, FiniteSets, TLC

VARIABLES
    wins,     \* side -> BtpWindowState, for the sides that exist
    now,      \* the clock read by Instant::now()
    chan,     \* side -> frames in flight towards that side (pair only)
    result,   \* what the latest call returned, and its arguments
    hist,     \* side -> observations of the calls made on that side so far
    codec     \* a codec call: its input, the stage reached and what it returned

vars == <<wins, now, chan, result, hist, codec>>

(***************************************************************************)
(* Bounds of the model.                                                    *)
(***************************************************************************)
\* largest negotiated window size explored (the smallest is 2)
MaxWindow == 5
\* frames one window state sends (prepare_send calls that return Send)
MaxSends == 4
\* packet_received calls made on one window state
MaxRecvs == 2
\* times the clock advances
MaxTicks == 2
\* largest window size of a client/server pair
MaxPairWindow == 3
\* frames each side of a pair sends when the window size is above 2
MaxPairSends == 3
\* times the clock advances while a pair runs
MaxPairTicks == 1
\* frames in flight in one direction of the pair
MaxInFlight == 2

(***************************************************************************)
(* Program constants.                                                      *)
(***************************************************************************)
U8 == 256
ACK_SEND_TIMEOUT == 2500
IDLE_TIMEOUT == 30000

Sides == {"client", "server"}
Other(side) == IF side = "client" THEN "server" ELSE "client"
WindowSizes == 2..MaxWindow
PacketData == {"HasData", "None"}
Builds == {"debug", "release"}

\* Option<u8>
None == [some |-> FALSE, v |-> 0]
Some(n) == [some |-> TRUE, v |-> n]

wrapping_sub(a, b) == (a + U8 - b) % U8
wrapping_add(a, b) == (a + b) % U8

(***************************************************************************)
(* PacketWindowState                                                       *)
(***************************************************************************)
PacketWindowStateDefault(t) ==
    [last_seen_time |-> t, last_packet_number |-> 255, ack_number |-> 255]

\* mutant: the count saturates at zero instead of wrapping
unacknowledged_count_Saturating(p) ==
    IF p.last_packet_number >= p.ack_number
    THEN p.last_packet_number - p.ack_number
    ELSE 0

unacknowledged_count(p) == wrapping_sub(p.last_packet_number, p.ack_number)

next_packet(p, t) ==
    [p EXCEPT !.last_seen_time =
                  IF p.last_packet_number = p.ack_number THEN t ELSE @,
              !.last_packet_number = wrapping_add(@, 1)]

\* mutant: the latest packet number is returned but not stored as acknowledged
mark_latest_ack_NotStored(p, t) ==
    IF p.last_packet_number = p.ack_number
    THEN [ack |-> None, p |-> p]
    ELSE [ack |-> Some(p.last_packet_number),
          p   |-> [p EXCEPT !.last_seen_time = t]]

\* returns the Option<u8> and the updated window
mark_latest_ack(p, t) ==
    IF p.last_packet_number = p.ack_number
    THEN [ack |-> None, p |-> p]
    ELSE [ack |-> Some(p.last_packet_number),
          p   |-> [p EXCEPT !.last_seen_time = t,
                            !.ack_number = p.last_packet_number]]

\* mutant: an ack in range refreshes the time but is not stored
ack_packet_NotStored(p, ack_number, t) ==
    LET ack_delta == wrapping_sub(ack_number, p.ack_number) IN
    IF ack_delta > unacknowledged_count(p)
    THEN [ok |-> FALSE, p |-> p]
    ELSE [ok |-> TRUE, p |-> [p EXCEPT !.last_seen_time = t]]

\* mutant: an ack for every unacknowledged packet is refused
ack_packet_OffByOne(p, ack_number, t) ==
    LET ack_delta == wrapping_sub(ack_number, p.ack_number) IN
    IF ack_delta >= unacknowledged_count(p)
    THEN [ok |-> FALSE, p |-> p]
    ELSE [ok |-> TRUE,
          p  |-> [p EXCEPT !.ack_number = ack_number, !.last_seen_time = t]]

\* returns Ok/Err and the updated window
ack_packet(p, ack_number, t) ==
    LET ack_delta == wrapping_sub(ack_number, p.ack_number) IN
    IF ack_delta > unacknowledged_count(p)
    THEN [ok |-> FALSE, p |-> p]
    ELSE [ok |-> TRUE,
          p  |-> [p EXCEPT !.ack_number = ack_number, !.last_seen_time = t]]

(***************************************************************************)
(* BtpWindowState                                                          *)
(***************************************************************************)
new(window_size, t) ==
    [window_size      |-> window_size,
     sent_packets     |-> PacketWindowStateDefault(t),
     received_packets |-> PacketWindowStateDefault(t)]

\* mutant: the connect response is not counted as received
client_NothingReceived(window_size, t) == new(window_size, t)

client(window_size, t) ==
    [new(window_size, t) EXCEPT !.received_packets = next_packet(@, t)]

server(window_size, t) ==
    [new(window_size, t) EXCEPT !.sent_packets = next_packet(@, t)]

Create(side, window_size, t) ==
    IF side = "client" THEN client(window_size, t) ELSE server(window_size, t)

\* mutant: the sequence number is compared before the window is advanced
packet_received_CheckBeforeAdvance(self, sequence_number, ack_number, t) ==
    LET received == next_packet(self.received_packets, t)
        advanced == [self EXCEPT !.received_packets = received]
    IN  IF self.received_packets.last_packet_number # sequence_number
        THEN [kind |-> "UnexpectedSequence", self |-> advanced]
        ELSE IF ack_number.some
             THEN LET acked == ack_packet(self.sent_packets, ack_number.v, t) IN
                  IF acked.ok
                  THEN [kind |-> "Ok",
                        self |-> [advanced EXCEPT !.sent_packets = acked.p]]
                  ELSE [kind |-> "AckOutOfRange", self |-> advanced]
             ELSE [kind |-> "Ok", self |-> advanced]

\* mutant: every accepted packet, with or without ack, refreshes
\* sent.last_seen_time
packet_received_AlwaysRefresh(self, sequence_number, ack_number, t) ==
    LET received == next_packet(self.received_packets, t)
        advanced == [self EXCEPT !.received_packets = received]
        seen     == [advanced EXCEPT !.sent_packets.last_seen_time = t]
    IN  IF received.last_packet_number # sequence_number
        THEN [kind |-> "UnexpectedSequence", self |-> advanced]
        ELSE IF ack_number.some
             THEN LET acked == ack_packet(self.sent_packets, ack_number.v, t) IN
                  IF acked.ok
                  THEN [kind |-> "Ok",
                        self |-> [advanced EXCEPT !.sent_packets = acked.p]]
                  ELSE [kind |-> "AckOutOfRange", self |-> advanced]
             ELSE [kind |-> "Ok", self |-> seen]

\* packet_received(self, PacketSequenceInfo{sequence_number, ack_number}) at
\* time t: the Result and the window state the call leaves behind.
packet_received(self, sequence_number, ack_number, t) ==
    LET received == next_packet(self.received_packets, t)
        advanced == [self EXCEPT !.received_packets = received]
    IN  IF received.last_packet_number # sequence_number
        THEN [kind |-> "UnexpectedSequence", self |-> advanced]
        ELSE IF ack_number.some
             THEN LET acked == ack_packet(self.sent_packets, ack_number.v, t) IN
                  IF acked.ok
                  THEN [kind |-> "Ok",
                        self |-> [advanced EXCEPT !.sent_packets = acked.p]]
                  ELSE [kind |-> "AckOutOfRange", self |-> advanced]
             ELSE [kind |-> "Ok", self |-> advanced]

\* mutant: the whole timeout is returned instead of what remains of it
WaitFor_WholeTimeout(timeout, elapsed, self) ==
    [kind |-> "Wait", duration |-> timeout, sequence_number |-> 0,
     ack_number |-> None, self |-> self]

\* Duration - Duration panics when the result would be negative.
WaitFor(timeout, elapsed, self) ==
    IF elapsed > timeout
    THEN [kind |-> "Panic", duration |-> 0, sequence_number |-> 0,
          ack_number |-> None, self |-> self]
    ELSE [kind |-> "Wait", duration |-> timeout - elapsed, sequence_number |-> 0,
          ack_number |-> None, self |-> self]

\* mutant: the packet takes two sequence numbers
SendNow_SkipsOne(self, t) ==
    LET sent  == next_packet(next_packet(self.sent_packets, t), t)
        acked == mark_latest_ack(self.received_packets, t)
    IN  [kind |-> "Send", duration |-> 0,
         sequence_number |-> sent.last_packet_number,
         ack_number |-> acked.ack,
         self |-> [self EXCEPT !.sent_packets = sent,
                               !.received_packets = acked.p]]

\* the last step of prepare_send: a packet can be sent
SendNow(self, t) ==
    LET sent  == next_packet(self.sent_packets, t)
        acked == mark_latest_ack(self.received_packets, t)
    IN  [kind |-> "Send", duration |-> 0,
         sequence_number |-> sent.last_packet_number,
         ack_number |-> acked.ack,
         self |-> [self EXCEPT !.sent_packets = sent,
                               !.received_packets = acked.p]]

\* mutant: the ack may wait while one more slot than allowed is taken
AckCanWait_PlusOne(self, build) ==
    IF unacknowledged_count(self.received_packets) + 1 < self.window_size
    THEN "Yes" ELSE "No"

\* `received.unacknowledged_count() + 2 < window_size`, a u8 sum: it panics
\* in a build with overflow checks and wraps in one without.
AckCanWait(self, build) ==
    LET sum == unacknowledged_count(self.received_packets) + 2 IN
    IF sum >= U8
    THEN IF build = "debug" THEN "Panic"
         ELSE IF sum % U8 < self.window_size THEN "Yes" ELSE "No"
    ELSE IF sum < self.window_size THEN "Yes" ELSE "No"

\* the rule that delays a frame carrying no data, and what follows it
DelayAckOrSend(self, data, t, build) ==
    LET canWait == IF data = "None" THEN AckCanWait(self, build) ELSE
                   IF AckCanWait(self, build) = "Panic" THEN "Panic" ELSE "No"
        time_since_last_sent == t - self.sent_packets.last_seen_time
    IN  IF canWait = "Panic"
        THEN [kind |-> "Panic", duration |-> 0, sequence_number |-> 0,
              ack_number |-> None, self |-> self]
        ELSE IF canWait = "Yes" /\ time_since_last_sent < ACK_SEND_TIMEOUT
             THEN WaitFor(ACK_SEND_TIMEOUT, time_since_last_sent, self)
             ELSE SendNow(self, t)

\* mutant: the last-slot rule compares the count without adding the packet
\* about to be sent
LastSlotWithoutAck_NoPlusOne(self) ==
    /\ unacknowledged_count(self.received_packets) = 0
    /\ unacknowledged_count(self.sent_packets) = self.window_size

\* `sent.unacknowledged_count() + 1 == window_size` with no ack to piggyback
LastSlotWithoutAck(self) ==
    /\ unacknowledged_count(self.received_packets) = 0
    /\ unacknowledged_count(self.sent_packets) + 1 = self.window_size

\* mutant: the full-window rule is off by one
WindowFull_OffByOne(self) ==
    unacknowledged_count(self.sent_packets) > self.window_size

WindowFull(self) ==
    unacknowledged_count(self.sent_packets) >= self.window_size

\* mutant: the idle timeout is measured from the last packet received
IdleTimedOut_ReceivedClock(self, t) ==
    /\ unacknowledged_count(self.sent_packets) # 0
    /\ self.received_packets.last_seen_time + IDLE_TIMEOUT < t

IdleTimedOut(self, t) ==
    /\ unacknowledged_count(self.sent_packets) # 0
    /\ self.sent_packets.last_seen_time + IDLE_TIMEOUT < t

\* prepare_send(self, data) at time t: the Result (kind Send, Wait,
\* IdleTimeout for the Err, or Panic) and the window state it leaves behind.
prepare_send(self, data, t, build) ==
    IF IdleTimedOut(self, t)
    THEN [kind |-> "IdleTimeout", duration |-> 0, sequence_number |-> 0,
          ack_number |-> None, self |-> self]
    ELSE IF WindowFull(self)
    THEN WaitFor(IDLE_TIMEOUT, t - self.sent_packets.last_seen_time, self)
    ELSE IF LastSlotWithoutAck(self)
    THEN WaitFor(IDLE_TIMEOUT, t - self.sent_packets.last_seen_time, self)
    ELSE DelayAckOrSend(self, data, t, build)

(***************************************************************************)
(* The observations kept next to the program state.                        *)
(***************************************************************************)
NoResult ==
    [op |-> "none", side |-> "none", kind |-> "none", seq |-> 0, ack |-> None,
     duration |-> 0, sequence_number |-> 0, ack_number |-> None]

NoHistory ==
    [sends       |-> 0,       \* prepare_send calls that returned Send
     recvs       |-> 0,       \* packet_received calls made
     lastSeq     |-> 0,       \* sequence number of the latest Send
     lastRecv    |-> "none",  \* outcome of the latest packet_received: Ok or Err
     lastRecvSeq |-> 0,       \* its sequence number, when it succeeded
     failed      |-> FALSE,   \* some packet_received call has failed
     idle        |-> FALSE,   \* prepare_send has returned the idle-timeout error
     afterIdle   |-> "nothing"] \* since then: nothing, a packet was "received"
                              \* without applying an ack, or an ack was "acked"

\* a prepare_send call and the Result it returned
SendResult(side, r) ==
    [op |-> "prepare_send", side |-> side, kind |-> r.kind, seq |-> 0,
     ack |-> None, duration |-> r.duration,
     sequence_number |-> r.sequence_number, ack_number |-> r.ack_number]

\* a packet_received call, the sequence number it was given, the ack it
\* went on to examine (none when the sequence check failed first) and the
\* Result it returned
ReceiveResult(side, seq, ack, r) ==
    [op |-> "packet_received", side |-> side, kind |-> r.kind, seq |-> seq,
     ack |-> IF r.kind = "UnexpectedSequence" THEN None ELSE ack,
     duration |-> 0, sequence_number |-> 0, ack_number |-> None]

\* the counters stop counting beyond every bound that reads them
CountUp(n) == IF n < MaxSends + MaxRecvs + MaxPairSends THEN n + 1 ELSE n

AfterSend(h, r) ==
    [h EXCEPT !.sends = IF r.kind = "Send" THEN CountUp(@) ELSE @,
              !.lastSeq = IF r.kind = "Send" THEN r.sequence_number ELSE @,
              !.idle = @ \/ r.kind = "IdleTimeout"]

AfterReceive(h, seq, ack, r) ==
    [h EXCEPT !.recvs = CountUp(@),
              !.lastRecv = IF r.kind = "Ok" THEN "Ok" ELSE "Err",
              !.lastRecvSeq = IF r.kind = "Ok" THEN seq ELSE 0,
              !.failed = @ \/ r.kind # "Ok",
              !.afterIdle = IF ~h.idle THEN @
                            ELSE IF r.kind = "Ok" /\ ack.some THEN "acked"
                            ELSE IF @ = "acked" THEN @ ELSE "received"]

(***************************************************************************)
(* One window state driven through its public operations: any call, with   *)
(* any argument near the expected one, at any time.                        *)
(***************************************************************************)
\* no codec call is in progress while the window state is exercised
NoCodec == [op |-> "none"]

TickSteps == {ACK_SEND_TIMEOUT, IDLE_TIMEOUT}

\* how many times the clock has advanced to reach t
Ticks(t) == (t \div IDLE_TIMEOUT) + ((t % IDLE_TIMEOUT) \div ACK_SEND_TIMEOUT)

\* sequence numbers offered to packet_received: the expected one, a repeat, a gap
SeqInputs(self) ==
    {wrapping_add(self.received_packets.last_packet_number, d) : d \in 0..2}

\* acks offered to packet_received: none, every ack in range, one behind the
\* acknowledged position and one beyond the last packet sent
AckInputs(self) ==
    {None} \cup
    {Some(wrapping_add(self.sent_packets.ack_number, d)) :
        d \in {U8 - 1} \cup (0..(unacknowledged_count(self.sent_packets) + 1))}

Init ==
    /\ \E side \in Sides, window_size \in WindowSizes :
          /\ wins = [s \in {side} |-> Create(side, window_size, 0)]
          /\ hist = [s \in {side} |-> NoHistory]
    /\ now = 0
    /\ chan = [s \in Sides |-> <<>>]
    /\ result = NoResult
    /\ codec = NoCodec

Tick(d) ==
    /\ Ticks(now) < MaxTicks
    /\ now' = now + d
    /\ UNCHANGED <<wins, chan, result, hist, codec>>

PrepareSend(side, data) ==
    /\ hist[side].sends < MaxSends
    /\ \E build \in Builds :
          LET r == prepare_send(wins[side], data, now, build) IN
          /\ wins' = [wins EXCEPT ![side] = r.self]
          /\ result' = SendResult(side, r)
          /\ hist' = [hist EXCEPT ![side] = AfterSend(@, r)]
    /\ UNCHANGED <<now, chan, codec>>

PacketReceived(side, seq, ack) ==
    /\ hist[side].recvs < MaxRecvs
    /\ LET r == packet_received(wins[side], seq, ack, now) IN
          /\ wins' = [wins EXCEPT ![side] = r.self]
          /\ result' = ReceiveResult(side, seq, ack, r)
          /\ hist' = [hist EXCEPT ![side] = AfterReceive(@, seq, ack, r)]
    /\ UNCHANGED <<now, chan, codec>>

Next ==
    \/ \E d \in TickSteps : Tick(d)
    \/ \E side \in DOMAIN wins, data \in PacketData : PrepareSend(side, data)
    \/ \E side \in DOMAIN wins :
          \E seq \in SeqInputs(wins[side]), ack \in AckInputs(wins[side]) :
             PacketReceived(side, seq, ack)

Spec == Init /\ [][Next]_vars

(***************************************************************************)
(* A client and a server created with the same window size.  Every Send    *)
(* that prepare_send returns is put on a lossless in-order channel and     *)
(* handed later to the other side's packet_received.  With window size 2   *)
(* the pair runs through the whole sequence-number space; larger windows   *)
(* stop after MaxPairSends frames per side.                                *)
(***************************************************************************)
PairWindowSizes == 2..MaxPairWindow

PairInit ==
    /\ \E window_size \in PairWindowSizes :
          wins = [s \in Sides |-> Create(s, window_size, 0)]
    /\ hist = [s \in Sides |-> NoHistory]
    /\ now = 0
    /\ chan = [s \in Sides |-> <<>>]
    /\ result = NoResult
    /\ codec = NoCodec

\* the clock of a pair advances by the ack delay, or past the idle timeout
PairTickSteps == {ACK_SEND_TIMEOUT, IDLE_TIMEOUT + ACK_SEND_TIMEOUT}

PairTicks(t) ==
    (t \div (IDLE_TIMEOUT + ACK_SEND_TIMEOUT))
    + ((t % (IDLE_TIMEOUT + ACK_SEND_TIMEOUT)) \div ACK_SEND_TIMEOUT)

PairTick(d) ==
    /\ PairTicks(now) < MaxPairTicks
    /\ now' = now + d
    /\ UNCHANGED <<wins, chan, result, hist, codec>>

PairSend(side, data) ==
    /\ wins[side].window_size = 2 \/ hist[side].sends < MaxPairSends
    /\ Len(chan[Other(side)]) < MaxInFlight
    /\ \E build \in Builds :
          LET r == prepare_send(wins[side], data, now, build) IN
          /\ wins' = [wins EXCEPT ![side] = r.self]
          /\ result' = SendResult(side, r)
          /\ hist' = [hist EXCEPT ![side] = AfterSend(@, r)]
          /\ chan' = IF r.kind = "Send"
                     THEN [chan EXCEPT ![Other(side)] =
                             Append(@, [sequence_number |-> r.sequence_number,
                                        ack_number |-> r.ack_number])]
                     ELSE chan
    /\ UNCHANGED <<now, codec>>

PairDeliver(side) ==
    /\ chan[side] # <<>>
    /\ LET packet == Head(chan[side])
           r == packet_received(wins[side], packet.sequence_number,
                                packet.ack_number, now)
       IN  /\ wins' = [wins EXCEPT ![side] = r.self]
           /\ result' = ReceiveResult(side, packet.sequence_number,
                                     packet.ack_number, r)
           /\ hist' = [hist EXCEPT ![side] = AfterReceive(@, packet.sequence_number,
                                                         packet.ack_number, r)]
    /\ chan' = [chan EXCEPT ![side] = Tail(@)]
    /\ UNCHANGED <<now, codec>>

PairNext ==
    \/ \E d \in PairTickSteps : PairTick(d)
    \/ \E side \in Sides, data \in PacketData : PairSend(side, data)
    \/ \E side \in Sides : PairDeliver(side)

PairSpec == PairInit /\ [][PairNext]_vars

(***************************************************************************)
(* Properties.                                                             *)
(***************************************************************************)
SentUnacked(side) == unacknowledged_count(wins[side].sent_packets)
ReceivedUnacked(side) == unacknowledged_count(wins[side].received_packets)

\* C1: the window never oversends: in every state reached through
\* prepare_send and packet_received calls at any clock values, the number of
\* sent and unacknowledged packets is at most the window size.
C1_WindowNeverOversends ==
    \A side \in DOMAIN wins : SentUnacked(side) <= wins[side].window_size

\* C1 witness: a Send has just filled the window completely.
C1_WindowFilled ==
    /\ result.op = "prepare_send" /\ result.kind = "Send"
    /\ SentUnacked(result.side) = wins[result.side].window_size

\* C2: with nothing received to acknowledge and one slot left in the
\* peer's window, prepare_send returns Send for neither value of data.
C2_LastSlotNeverSent ==
    \A side \in DOMAIN wins : \A data \in PacketData, build \in Builds :
        (/\ ReceivedUnacked(side) = 0
         /\ SentUnacked(side) + 1 = wins[side].window_size)
        => prepare_send(wins[side], data, now, build).kind # "Send"

\* C2 witness: after at least one Send, a prepare_send call made in such a
\* state has returned Wait.
C2_LastSlotWaited ==
    \E side \in DOMAIN wins :
        /\ ReceivedUnacked(side) = 0
        /\ SentUnacked(side) + 1 = wins[side].window_size
        /\ hist[side].sends > 0
        /\ result.op = "prepare_send" /\ result.kind = "Wait"

\* prepare_send(HasData) would return Wait on this side, which only the
\* full-window rule and the last-slot rule make it do
BlockedWithData(side) ==
    \A build \in Builds :
        prepare_send(wins[side], "HasData", now, build).kind = "Wait"

Quiet == \A side \in Sides : chan[side] = <<>>

\* C3: a client and a server with the same window size, exchanging their
\* frames over a lossless in-order channel in any interleaving, never reach
\* a state with no frame in flight in which prepare_send(HasData) returns
\* Wait on both sides.
C3_NoMutualWait ==
    Quiet => \E side \in Sides : ~BlockedWithData(side)

\* C3 witness: no frame is in flight, both sides have sent, and exactly one
\* side is held back by the full-window or the last-slot rule.
C3_OneSideWaits ==
    /\ Quiet
    /\ \A side \in Sides : hist[side].sends > 0
    /\ \E side \in Sides : BlockedWithData(side) /\ ~BlockedWithData(Other(side))

\* this step is a packet_received call on side (result' holds its arguments)
ReceiveStep(side) ==
    /\ result'.op = "packet_received" /\ result'.side = side
    /\ now' = now
    /\ hist'[side] # hist[side]

\* this step is a prepare_send call on side
SendStep(side) ==
    /\ result'.op = "prepare_send" /\ result'.side = side
    /\ now' = now

\* the sequence number packet_received expects next
ExpectedSeq(side) ==
    (wins[side].received_packets.last_packet_number + 1) % U8

\* (ack - sent.ack_number) mod 256 is at most sent.unacked
AckInRange(side, ack) ==
    ((ack.v + U8 - wins[side].sent_packets.ack_number) % U8) <= SentUnacked(side)

\* C4 as stated: after packet_received(n) has succeeded, received's last
\* packet number is n and the next packet_received call, with sequence
\* number m, succeeds if and only if m = n+1 (mod 256).
C4_NextSucceedsIffSuccessor ==
    [][\A side \in DOMAIN wins :
         (ReceiveStep(side) /\ hist[side].lastRecv = "Ok")
         => /\ wins[side].received_packets.last_packet_number
                 = hist[side].lastRecvSeq
            /\ (result'.kind = "Ok")
                 <=> (result'.seq = (hist[side].lastRecvSeq + 1) % U8)]_vars

\* C4 amended: after packet_received(n) has succeeded, received's last
\* packet number is n, and the next packet_received call, with sequence
\* number m, fails with the unexpected-sequence error if and only if
\* m # n+1 (mod 256); it succeeds if and only if m = n+1 (mod 256) and its
\* ack, when it carries one, is in range.
C4_NextSucceedsIffSuccessorAndAckInRange ==
    [][\A side \in DOMAIN wins :
         (ReceiveStep(side) /\ hist[side].lastRecv = "Ok")
         => /\ wins[side].received_packets.last_packet_number
                 = hist[side].lastRecvSeq
            /\ (result'.kind = "UnexpectedSequence")
                 <=> (result'.seq # (hist[side].lastRecvSeq + 1) % U8)
            /\ (result'.kind = "Ok")
                 <=> /\ result'.seq = (hist[side].lastRecvSeq + 1) % U8
                     /\ result'.ack.some => AckInRange(side, result'.ack)
            /\ result'.kind = "Ok"
                 => wins'[side].received_packets.last_packet_number
                      = result'.seq]_vars

\* C4 witness: two packet_received calls in a row have succeeded.
C4_TwoReceived ==
    /\ result.op = "packet_received" /\ result.kind = "Ok"
    /\ hist[result.side].recvs = 2 /\ ~hist[result.side].failed

\* C5 as stated: with sent packets unacknowledged and at least IDLE_TIMEOUT
\* elapsed since sent.last_seen_time, exactly IDLE_TIMEOUT included,
\* prepare_send returns the idle-timeout error for either value of data.
C5_IdleTimeoutAtOrAfter ==
    \A side \in DOMAIN wins : \A data \in PacketData, build \in Builds :
        (/\ SentUnacked(side) > 0
         /\ now - wins[side].sent_packets.last_seen_time >= IDLE_TIMEOUT)
        => prepare_send(wins[side], data, now, build).kind = "IdleTimeout"

\* C5 amended: with sent packets unacknowledged and more than IDLE_TIMEOUT
\* elapsed since sent.last_seen_time, prepare_send returns the idle-timeout
\* error for either value of data; at exactly IDLE_TIMEOUT it does not.
C5_IdleTimeoutAfter ==
    \A side \in DOMAIN wins : \A data \in PacketData, build \in Builds :
        /\ (/\ SentUnacked(side) > 0
            /\ now - wins[side].sent_packets.last_seen_time > IDLE_TIMEOUT)
           => prepare_send(wins[side], data, now, build).kind = "IdleTimeout"
        /\ now - wins[side].sent_packets.last_seen_time = IDLE_TIMEOUT
           => prepare_send(wins[side], data, now, build).kind # "IdleTimeout"

\* C5 witness: a prepare_send call has returned the idle-timeout error.
C5_TimedOut ==
    \E side \in DOMAIN wins :
        /\ SentUnacked(side) > 0
        /\ now - wins[side].sent_packets.last_seen_time > IDLE_TIMEOUT
        /\ result.op = "prepare_send" /\ result.kind = "IdleTimeout"

\* C6 as stated: once prepare_send has returned the idle-timeout error,
\* every later prepare_send call on the same window state returns it too,
\* whatever packet_received calls are made in between.
C6_IdleTimeoutIsTerminal ==
    [][\A side \in DOMAIN wins :
         (SendStep(side) /\ hist[side].idle)
         => result'.kind = "IdleTimeout"]_vars

\* C6 amended: once prepare_send has returned the idle-timeout error, every
\* later prepare_send call on the same window state returns it too, as long
\* as no packet_received call in between has succeeded with an
\* acknowledgement.
C6_IdleTimeoutUntilAcked ==
    [][\A side \in DOMAIN wins :
         (SendStep(side) /\ hist[side].idle /\ hist[side].afterIdle # "acked")
         => result'.kind = "IdleTimeout"]_vars

\* C6 witness: after the idle-timeout error a packet was received without
\* an ack being applied, and prepare_send has returned the error again.
C6_TimedOutAgain ==
    \E side \in DOMAIN wins :
        /\ hist[side].idle /\ hist[side].afterIdle = "received"
        /\ result.op = "prepare_send" /\ result.kind = "IdleTimeout"

\* C7: a pending acknowledgement is never held longer than the ack delay:
\* when a received packet has been unacknowledged for at least
\* ACK_SEND_TIMEOUT (received.last_seen_time is the receipt of the oldest
\* packet not yet acknowledged) and the send window has room
\* (sent.unacked + 1 < window_size), prepare_send(None) returns Send with
\* the acknowledgement.
C7_AckNeverHeldPastDelay ==
    \A side \in DOMAIN wins : \A build \in Builds :
        (/\ ~hist[side].failed
         /\ ReceivedUnacked(side) > 0
         /\ now - wins[side].received_packets.last_seen_time >= ACK_SEND_TIMEOUT
         /\ SentUnacked(side) + 1 < wins[side].window_size)
        => LET r == prepare_send(wins[side], "None", now, build) IN
           r.kind = "Send" /\ r.ack_number.some

\* C8 as stated: the first Send of a client is {sequence 0, ack Some(0)},
\* the first Send of a server that has received nothing is {sequence 1,
\* ack None}, and every later Send of a side carries the sequence number
\* of its previous Send plus 1 (mod 256).
C8_SendSequence ==
    [][\A side \in Sides :
         (SendStep(side) /\ result'.kind = "Send")
         => IF hist[side].sends = 0
            THEN /\ side = "client"
                    => /\ result'.sequence_number = 0
                       /\ result'.ack_number = Some(0)
                 /\ (side = "server" /\ hist[side].recvs = 0)
                    => /\ result'.sequence_number = 1
                       /\ result'.ack_number = None
            ELSE result'.sequence_number = (hist[side].lastSeq + 1) % U8]_vars

\* C8 amended: the first Send of a client carries sequence number 0 and,
\* when the client has received nothing, ack Some(0); the first Send of a
\* server that has received nothing is {sequence 1, ack None}; and every
\* later Send of a side carries the sequence number of its previous Send
\* plus 1 (mod 256).
C8_SendSequenceFromFreshState ==
    [][\A side \in Sides :
         (SendStep(side) /\ result'.kind = "Send")
         => IF hist[side].sends = 0
            THEN /\ side = "client"
                    => /\ result'.sequence_number = 0
                       /\ hist[side].recvs = 0 => result'.ack_number = Some(0)
                 /\ (side = "server" /\ hist[side].recvs = 0)
                    => /\ result'.sequence_number = 1
                       /\ result'.ack_number = None
            ELSE result'.sequence_number = (hist[side].lastSeq + 1) % U8]_vars

\* C8 witness: a side whose previous Send carried sequence number 255 has
\* sent again, with sequence number 0.
C8_SentAcrossWrap ==
    /\ result.op = "prepare_send" /\ result.kind = "Send"
    /\ result.sequence_number = 0
    /\ hist[result.side].sends > 2

\* C9: when every Send of one side of a pair is delivered in order to the
\* other side's packet_received, packet_received never fails, neither
\* before nor after the sequence numbers have wrapped from 255 to 0.
C9_DeliveryNeverFails ==
    /\ \A side \in Sides : ~hist[side].failed
    /\ result.op = "packet_received" => result.kind = "Ok"

\* C9 witness: the frame with sequence number 0 that follows frame 255 has
\* been received, and the ack it carries is for a frame sent after the
\* receiver's own sequence numbers wrapped.
C9_ReceivedAcrossWrap ==
    /\ result.op = "packet_received" /\ result.kind = "Ok"
    /\ result.seq = 0 /\ result.ack.some /\ result.ack.v < 2
    /\ hist[result.side].recvs > 2
    /\ hist[result.side].sends > 2

\* C10: packet_received with the expected sequence number and an ack a
\* fails if and only if (a - sent.ack_number) mod 256 exceeds sent.unacked;
\* when it succeeds sent.ack_number becomes a, sent.unacked decreases by
\* exactly that delta and sent.last_packet_number is unchanged, so the
\* acknowledged position moves forward and never past the last packet sent.
C10_AckRange ==
    [][\A side \in DOMAIN wins :
         (/\ ReceiveStep(side)
          /\ result'.seq = ExpectedSeq(side)
          /\ result'.ack.some)
         => LET a == result'.ack.v
                delta == (a + U8 - wins[side].sent_packets.ack_number) % U8
            IN  /\ (result'.kind # "Ok") <=> (delta > SentUnacked(side))
                /\ result'.kind # "Ok" => result'.kind = "AckOutOfRange"
                /\ result'.kind = "Ok"
                   => /\ wins'[side].sent_packets.ack_number = a
                      /\ unacknowledged_count(wins'[side].sent_packets)
                           = SentUnacked(side) - delta
                      /\ wins'[side].sent_packets.last_packet_number
                           = wins[side].sent_packets.last_packet_number]_vars

\* C10 witness: an ack that acknowledges some but not all of the sent
\* packets has been applied.
C10_PartlyAcked ==
    /\ result.op = "packet_received" /\ result.kind = "Ok" /\ result.ack.some
    /\ hist[result.side].sends > 1
    /\ SentUnacked(result.side) > 0
    /\ wins[result.side].sent_packets.ack_number = result.ack.v
    /\ wins[result.side].sent_packets.ack_number # 255

(***************************************************************************)
(* BTP framing (framing.rs, handshake.rs): the parsers of a data frame and *)
(* of a handshake response.  A buffer is a sequence of u8; the             *)
(* specification FramingSpec draws a buffer and hands it to a parser.      *)
(***************************************************************************)
\* longest data frame explored
MaxFrameLen == 4
\* longest handshake buffer explored (a response has 6 bytes)
MaxResponseLen == 7

RECURSIVE BitAnd(_, _)
BitAnd(a, b) ==
    IF a = 0 \/ b = 0 THEN 0
    ELSE (a % 2) * (b % 2) + 2 * BitAnd(a \div 2, b \div 2)

BitOr(a, b) == a + b - BitAnd(a, b)

\* Result<T>
Ok(v) == [kind |-> "Ok", value |-> v]
Err(e) == [kind |-> "Err", error |-> e]

\* bitflags: from_bits accepts a value made of declared bits only
from_bits(all, bits) == IF BitAnd(bits, (U8 - 1) - all) = 0 THEN Some(bits) ELSE None
intersects(flags, other) == BitAnd(flags, other) # 0
contains(flags, other) == BitAnd(flags, other) = other

SEGMENT_BEGIN == 1
SEGMENT_END == 4
CONTAINS_ACK == 8
MANAGEMENT_MESSAGE == 32
HANDSHAKE_MESSAGE == 64
HANDSHAKE_RESPONSE ==
    BitOr(BitOr(HANDSHAKE_MESSAGE, MANAGEMENT_MESSAGE), BitOr(SEGMENT_BEGIN, SEGMENT_END))
HeaderFlags ==
    BitOr(BitOr(BitOr(SEGMENT_BEGIN, SEGMENT_END), CONTAINS_ACK), HANDSHAKE_RESPONSE)

BTP_PROTOCOL_VERSION == 4
MANAGEMENT_OPCODE == 108

\* payload @ .. : what is left of the slice after its first n elements
SliceFrom(buffer, n) == SubSeq(buffer, n + 1, Len(buffer))

BtpDataPacket(flags, ack_number, sequence_number, payload) ==
    [flags |-> flags,
     sequence_info |-> [ack_number |-> ack_number, sequence_number |-> sequence_number],
     payload |-> payload]

BtpDataPacket_parse_SequenceBeforeAck(buffer) ==
    IF Len(buffer) = 0 THEN Err("Message too short: no space for flags")
    ELSE LET flags == from_bits(HeaderFlags, buffer[1])
             rest == SliceFrom(buffer, 1)
         IN  IF ~flags.some THEN Err("Invalid flags")
             ELSE IF intersects(flags.v, BitOr(MANAGEMENT_MESSAGE, HANDSHAKE_MESSAGE))
             THEN Err("Parsing of management packets not supported.")
             ELSE IF Len(rest) >= 2 /\ contains(flags.v, CONTAINS_ACK)
             THEN Ok(BtpDataPacket(flags.v, Some(rest[2]), rest[1], SliceFrom(rest, 2)))
             ELSE IF Len(rest) >= 1 /\ ~contains(flags.v, CONTAINS_ACK)
             THEN Ok(BtpDataPacket(flags.v, None, rest[1], SliceFrom(rest, 1)))
             ELSE Err("Invalid message after checking flags")

BtpDataPacket_parse(buffer) ==
    IF Len(buffer) = 0 THEN Err("Message too short: no space for flags")
    ELSE LET flags == from_bits(HeaderFlags, buffer[1])
             rest == SliceFrom(buffer, 1)
         IN  IF ~flags.some THEN Err("Invalid flags")
             ELSE IF intersects(flags.v, BitOr(MANAGEMENT_MESSAGE, HANDSHAKE_MESSAGE))
             THEN Err("Parsing of management packets not supported.")
             ELSE IF Len(rest) >= 2 /\ contains(flags.v, CONTAINS_ACK)
             THEN Ok(BtpDataPacket(flags.v, Some(rest[1]), rest[2], SliceFrom(rest, 2)))
             ELSE IF Len(rest) >= 1 /\ ~contains(flags.v, CONTAINS_ACK)
             THEN Ok(BtpDataPacket(flags.v, None, rest[1], SliceFrom(rest, 1)))
             ELSE Err("Invalid message after checking flags")

Response(segment_l, segment_h, window_size) ==
    [selected_segment_size |-> BitOr((segment_h * U8) % (U8 * U8), segment_l),
     selected_window_size |-> window_size]

Response_parse_LowNibbleProtocol(buffer) ==
    IF Len(buffer) # 6 THEN Err("Invalid data length")
    ELSE IF buffer[1] # HANDSHAKE_RESPONSE THEN Err("Invalid response flags")
    ELSE IF buffer[2] # MANAGEMENT_OPCODE THEN Err("Invalid management opcode")
    ELSE IF buffer[3] % 16 # BTP_PROTOCOL_VERSION THEN Err("Invalid protocol")
    ELSE Ok(Response(buffer[4], buffer[5], buffer[6]))

Response_parse(buffer) ==
    IF Len(buffer) # 6 THEN Err("Invalid data length")
    ELSE IF buffer[1] # HANDSHAKE_RESPONSE THEN Err("Invalid response flags")
    ELSE IF buffer[2] # MANAGEMENT_OPCODE THEN Err("Invalid management opcode")
    ELSE IF buffer[3] # BTP_PROTOCOL_VERSION THEN Err("Invalid protocol")
    ELSE Ok(Response(buffer[4], buffer[5], buffer[6]))

\* the first n bytes of bytes, followed by zeroes when it is shorter
Pad(bytes, n) == [i \in 1..n |-> IF i <= Len(bytes) THEN bytes[i] ELSE 0]

\* data frames: every flags byte, followed by up to MaxFrameLen - 1 bytes
FrameBytes == {0, 2, U8 - 1}
DataFrames ==
    {<<>>} \cup
    UNION {{<<flags>> \o rest : flags \in 0..(U8 - 1), rest \in [1..n -> FrameBytes]} :
              n \in 0..(MaxFrameLen - 1)}

\* handshake buffers: the response of the handshake example with each field
\* varied, cut or extended to every length up to MaxResponseLen
ResponseBuffers ==
    {Pad(<<flags, opcode, protocol, segment_l, segment_h, window_size>>, n) :
        flags \in {101, 100, 37, 69, 109, 0},
        opcode \in {108, 109, 0},
        protocol \in {4, 5, 20, 0},
        segment_l \in {210, 0, U8 - 1},
        segment_h \in {4, 0, U8 - 1},
        window_size \in {21, 0, U8 - 1},
        n \in 0..MaxResponseLen}

FramingInit ==
    /\ \E buffer \in DataFrames \cup ResponseBuffers :
          codec = [op |-> "input", buffer |-> buffer]
    /\ wins = <<>>
    /\ hist = <<>>
    /\ now = 0
    /\ chan = <<>>
    /\ result = NoResult

ParseDataPacket ==
    /\ codec.op = "input"
    /\ codec' = [op |-> "BtpDataPacket::parse", buffer |-> codec.buffer,
                 ret |-> BtpDataPacket_parse(codec.buffer)]
    /\ UNCHANGED <<wins, now, chan, result, hist>>

ParseResponse ==
    /\ codec.op = "input"
    /\ codec' = [op |-> "Response::parse", buffer |-> codec.buffer,
                 ret |-> Response_parse(codec.buffer)]
    /\ UNCHANGED <<wins, now, chan, result, hist>>

FramingNext ==
    \/ ParseDataPacket
    \/ ParseResponse

FramingSpec == FramingInit /\ [][FramingNext]_vars

\* bit k of a byte, by arithmetic
BitSet(byte, k) == (byte \div (2 ^ k)) % 2 = 1

\* flags bytes that use only segment-begin (bit0), segment-end (bit2) and
\* contains-ack (bit3)
DataFlagBytes == {b + 4 * e + 8 * a : b \in 0..1, e \in 0..1, a \in 0..1}

\* C11: BtpDataPacket::parse rejects every frame whose flags byte has the
\* management bit (bit5) or the handshake bit (bit6) set.  For a frame whose
\* flags byte uses only segment-begin, segment-end and contains-ack, it fails
\* when the ack or the sequence byte is missing, and otherwise yields: the
\* second byte as ack_number exactly when contains-ack is set (none
\* otherwise), the next byte as sequence_number, all remaining bytes as
\* payload.
C11_DataPacketParse ==
    codec.op = "BtpDataPacket::parse" /\ codec.buffer # <<>> =>
       LET buffer == codec.buffer
           flags == buffer[1]
           header == IF BitSet(flags, 3) THEN 3 ELSE 2
       IN  /\ BitSet(flags, 5) \/ BitSet(flags, 6) => codec.ret.kind = "Err"
           /\ flags \in DataFlagBytes /\ Len(buffer) < header => codec.ret.kind = "Err"
           /\ flags \in DataFlagBytes /\ Len(buffer) >= header =>
                 /\ codec.ret.kind = "Ok"
                 /\ codec.ret.value.sequence_info.ack_number =
                       (IF BitSet(flags, 3) THEN Some(buffer[2]) ELSE None)
                 /\ codec.ret.value.sequence_info.sequence_number = buffer[header]
                 /\ codec.ret.value.payload = SubSeq(buffer, header + 1, Len(buffer))

\* a frame with an ack, a different sequence number and a payload was parsed
C11_AckedFrameParsed ==
    /\ codec.op = "BtpDataPacket::parse"
    /\ codec.ret.kind = "Ok"
    /\ codec.ret.value.sequence_info.ack_number.some
    /\ codec.ret.value.sequence_info.ack_number.v #
          codec.ret.value.sequence_info.sequence_number
    /\ codec.ret.value.payload # <<>>

\* C12: Response::parse succeeds if and only if the buffer is exactly 6 bytes
\* with flags = 0x65, management opcode = 0x6C and selected protocol = 4; on
\* success the segment size is the little-endian u16 of bytes 3-4 (counted
\* from 0) and the window size is byte 5.
C12_ResponseParse ==
    codec.op = "Response::parse" =>
       LET buffer == codec.buffer IN
       /\ codec.ret.kind = "Ok" <=>
             /\ Len(buffer) = 6
             /\ buffer[1] = 101 /\ buffer[2] = 108 /\ buffer[3] = 4
       /\ codec.ret.kind = "Ok" =>
             /\ codec.ret.value.selected_segment_size = buffer[4] + 256 * buffer[5]
             /\ codec.ret.value.selected_window_size = buffer[6]

\* the response of the handshake example was accepted, with segment size 1234
C12_ResponseAccepted ==
    /\ codec.op = "Response::parse"
    /\ codec.ret.kind = "Ok"
    /\ codec.ret.value.selected_segment_size = 1234

(***************************************************************************)
(* Matter message header (matter-packets: packet.rs, reader.rs,            *)
(* writer.rs).  A u16 is an integer; a u32 or u64 is the sequence of its   *)
(* 16-bit words, most significant first, so that every width is exact.     *)
(* The specification PacketSpec runs the two pipelines of the fuzz         *)
(* targets: bytes -> parse -> write, and header -> write -> parse.         *)
(***************************************************************************)
\* bytes that follow the longest header (24 bytes) in the buffers explored
MaxPayloadLen == 2

U16 == 65536

\* BytesSource::read: take count bytes from the front, or fail and take none
Read(buffer, count) ==
    IF Len(buffer) >= count
    THEN [ok |-> TRUE, data |-> SubSeq(buffer, 1, count), rest |-> SliceFrom(buffer, count)]
    ELSE [ok |-> FALSE, data |-> <<>>, rest |-> buffer]

read_le_u16_BigEndian(data) == U8 * data[1] + data[2]

read_le_u16(data) == data[1] + U8 * data[2]

write_le_u16_BigEndian(v) == <<v \div U8, v % U8>>

write_le_u16(v) == <<v % U8, v \div U8>>

\* read_le_u32 / read_le_u64: the words of 4 or 8 little-endian bytes
read_le_words(data) ==
    LET k == Len(data) \div 2 IN
    [i \in 1..k |-> read_le_u16(SubSeq(data, 2 * (k - i) + 1, 2 * (k - i) + 2))]

\* write_le_u32 / write_le_u64
RECURSIVE write_le_words(_)
write_le_words(words) ==
    IF words = <<>> THEN <<>>
    ELSE write_le_u16(words[Len(words)]) \o write_le_words(SubSeq(words, 1, Len(words) - 1))

FLAGS_VERSION_MASK == 240
FLAGS_VERSION_V1 == 0
FLAGS_SOURCE_NODE_ID_SET == 4
FLAGS_DESTINATION_MASK == 3
FLAGS_DESTINATION_NODE == 1
FLAGS_DESTINATION_GROUP == 2

PRIVACY == 128
CONTROL_MESSAGE == 64
MESSAGE_EXTENSIONS == 32
SESSION_TYPE_MASK == 3
SecurityFlags ==
    BitOr(BitOr(PRIVACY, CONTROL_MESSAGE), BitOr(MESSAGE_EXTENSIONS, SESSION_TYPE_MASK))

session_type_OnlyLowBit(flags) ==
    IF BitAnd(flags, 1) = 0 THEN Ok("Unicast") ELSE Ok("GroupMulticast")

session_type(flags) ==
    LET n == BitAnd(flags, SESSION_TYPE_MASK) IN
    IF n = 0 THEN Ok("Unicast")
    ELSE IF n = 1 THEN Ok("GroupMulticast")
    ELSE Err("Invalid session type")

\* Option<NodeId> and MessageDestination; an id is a sequence of words
NoSource == [some |-> FALSE, id |-> <<>>]
Source(id) == [some |-> TRUE, id |-> id]
Destination(kind, id) == [kind |-> kind, id |-> id]

\* what a parser returns, and what it leaves in the reader
Parsed(ret, rest) == [ret |-> ret, rest |-> rest]

\* the optional source and the destination, read after the counter
ParseAddresses(message_flags, session_id, flags, counter, buffer) ==
    LET has_source == BitAnd(message_flags, FLAGS_SOURCE_NODE_ID_SET) # 0
        src == IF has_source THEN Read(buffer, 8)
               ELSE [ok |-> TRUE, data |-> <<>>, rest |-> buffer]
        kind == BitAnd(message_flags, FLAGS_DESTINATION_MASK)
        dst == IF kind = FLAGS_DESTINATION_NODE THEN Read(src.rest, 8)
               ELSE IF kind = FLAGS_DESTINATION_GROUP THEN Read(src.rest, 2)
               ELSE [ok |-> TRUE, data |-> <<>>, rest |-> src.rest]
    IN  IF ~src.ok THEN Parsed(Err("Insufficient data"), src.rest)
        ELSE IF ~dst.ok THEN Parsed(Err("Insufficient data"), dst.rest)
        ELSE Parsed(Ok([session_id |-> session_id,
                        source |-> IF has_source THEN Source(read_le_words(src.data))
                                   ELSE NoSource,
                        destination |->
                           IF kind = FLAGS_DESTINATION_NODE
                           THEN Destination("Node", read_le_words(dst.data))
                           ELSE IF kind = FLAGS_DESTINATION_GROUP
                           THEN Destination("Group", <<read_le_u16(dst.data)>>)
                           ELSE Destination("None", <<>>),
                        flags |-> flags,
                        counter |-> counter]),
                    dst.rest)

packet_Header_parse(buffer) ==
    LET b1 == Read(buffer, 1) IN
    IF ~b1.ok THEN Parsed(Err("Insufficient data"), b1.rest)
    ELSE LET message_flags == b1.data[1] IN
    IF BitAnd(message_flags, FLAGS_VERSION_MASK) # FLAGS_VERSION_V1
    THEN Parsed(Err("Not a valid CHIP v1 message."), b1.rest)
    ELSE LET b2 == Read(b1.rest, 2) IN
    IF ~b2.ok THEN Parsed(Err("Insufficient data"), b2.rest)
    ELSE LET b3 == Read(b2.rest, 1) IN
    IF ~b3.ok THEN Parsed(Err("Insufficient data"), b3.rest)
    ELSE LET flags == from_bits(SecurityFlags, b3.data[1]) IN
    IF ~flags.some THEN Parsed(Err("Invalid security flags"), b3.rest)
    ELSE IF session_type(flags.v).kind = "Err"
    THEN Parsed(session_type(flags.v), b3.rest)
    ELSE LET b4 == Read(b3.rest, 4) IN
    IF ~b4.ok THEN Parsed(Err("Insufficient data"), b4.rest)
    ELSE ParseAddresses(message_flags, read_le_u16(b2.data), flags.v,
                        read_le_words(b4.data), b4.rest)

\* Header::write into a writer that has room (the fuzz targets give it 64 bytes)
packet_Header_write(self) ==
    LET message_flags ==
           BitOr(FLAGS_VERSION_V1,
                 BitOr(IF self.source.some THEN FLAGS_SOURCE_NODE_ID_SET ELSE 0,
                       IF self.destination.kind = "Node" THEN FLAGS_DESTINATION_NODE
                       ELSE IF self.destination.kind = "Group" THEN FLAGS_DESTINATION_GROUP
                       ELSE 0))
    IN  <<message_flags>> \o write_le_u16(self.session_id) \o <<self.flags>>
        \o write_le_words(self.counter)
        \o (IF self.source.some THEN write_le_words(self.source.id) ELSE <<>>)
        \o (IF self.destination.kind = "None" THEN <<>>
            ELSE write_le_words(self.destination.id))

\* message-flags bytes: every low nibble, and three with a version
MessageFlagBytes == (0..15) \cup {16, 17, 240}
\* security-flags bytes: each session type, each single bit, and mixtures
SecurityFlagBytes == {0, 1, 2, 3, 4, 8, 16, 32, 64, 128, 225, 255}
\* the bytes after the first: 0x11, 0x22, ... or all 0xFF
FillBytes(fill, n) ==
    [i \in 1..n |-> IF fill = "count" THEN (17 * i) % U8 ELSE U8 - 1]

\* buffers: a header with every field present and MaxPayloadLen more bytes,
\* cut at every length
PacketBuffers ==
    {SubSeq(<<message_flags>> \o FillBytes(fill, 2) \o <<flags>>
              \o FillBytes(fill, 20 + MaxPayloadLen), 1, n) :
        message_flags \in MessageFlagBytes,
        flags \in SecurityFlagBytes,
        fill \in {"count", "ones"},
        n \in 0..(24 + MaxPayloadLen)}

\* well-formed headers: declared security bits, session type 0 or 1
NodeIds == {<<0, 0, 0, 0>>, <<56780, 48042, 30806, 13330>>,
            <<U16 - 1, U16 - 1, U16 - 1, U16 - 1>>}
Headers ==
    [flags : {BitOr(high, type) : high \in {0, 32, 64, 128, 224}, type \in {0, 1}},
     session_id : {0, 4660, U16 - 1},
     source : {NoSource} \cup {Source(id) : id \in NodeIds},
     destination : {Destination("None", <<>>)}
                   \cup {Destination("Node", id) : id \in NodeIds}
                   \cup {Destination("Group", <<id>>) : id \in {0, 43981, U16 - 1}},
     counter : {<<0, 0>>, <<4386, 13124>>, <<U16 - 1, U16 - 1>>}]

PacketInit ==
    /\ \/ \E buffer \in PacketBuffers : codec = [op |-> "bytes", buffer |-> buffer]
       \/ \E header \in Headers : codec = [op |-> "header", header |-> header]
    /\ wins = <<>>
    /\ hist = <<>>
    /\ now = 0
    /\ chan = <<>>
    /\ result = NoResult

\* Header::parse of the input bytes, or of the bytes written from a header
HeaderParse ==
    /\ codec.op \in {"bytes", "written"}
    /\ LET buffer == IF codec.op = "bytes" THEN codec.buffer ELSE codec.written
           parsed == packet_Header_parse(buffer)
       IN  codec' = IF codec.op = "bytes"
                    THEN [op |-> "parsed", buffer |-> buffer,
                          ret |-> parsed.ret, rest |-> parsed.rest]
                    ELSE [op |-> "written-parsed", header |-> codec.header,
                          written |-> buffer,
                          ret |-> parsed.ret, rest |-> parsed.rest]
    /\ UNCHANGED <<wins, now, chan, result, hist>>

\* Header::write of the input header, or of the header parsed from bytes
HeaderWrite ==
    /\ \/ codec.op = "header"
       \/ codec.op = "parsed" /\ codec.ret.kind = "Ok"
    /\ codec' = IF codec.op = "header"
                THEN [op |-> "written", header |-> codec.header,
                      written |-> packet_Header_write(codec.header)]
                ELSE [op |-> "parsed-written", buffer |-> codec.buffer,
                      ret |-> codec.ret, rest |-> codec.rest,
                      written |-> packet_Header_write(codec.ret.value)]
    /\ UNCHANGED <<wins, now, chan, result, hist>>

PacketNext ==
    \/ HeaderParse
    \/ HeaderWrite

PacketSpec == PacketInit /\ [][PacketNext]_vars

\* the bytes a parse took from its buffer
Consumed == SubSeq(codec.buffer, 1, Len(codec.buffer) - Len(codec.rest))

\* C13: for every byte sequence B that Header::parse accepts, writing the
\* parsed header yields exactly the bytes that parse consumed from B,
\* bit-exact, the message-flags byte included.
C13_WriteOfParsedIsConsumedBytes ==
    codec.op = "parsed-written" => codec.written = Consumed

\* C14: for every well-formed header H, parsing the bytes produced by
\* write(H) succeeds and yields a header equal to H.
C14_ParseOfWrittenIsHeader ==
    codec.op = "written-parsed" =>
       /\ codec.ret.kind = "Ok"
       /\ codec.ret.value = codec.header
       /\ codec.rest = <<>>

\* a header with a source node, a destination group and a counter whose
\* bytes all differ went through write and parse
C14_FullHeaderRoundTrip ==
    /\ codec.op = "written-parsed"
    /\ codec.header.source.some
    /\ codec.header.destination = Destination("Group", <<43981>>)
    /\ codec.header.counter = <<4386, 13124>>
    /\ Len(codec.written) = 18

\* C15: Header::parse fails for every buffer whose message-flags byte has
\* destination-kind bits (bits 0-1) equal to the reserved value 3.
C15_ReservedDestinationRejected ==
    codec.op = "parsed" /\ codec.buffer # <<>> /\ codec.buffer[1] % 4 = 3 =>
       codec.ret.kind = "Err"

\* bytes of the header that a message-flags byte announces
HeaderLen(message_flags) ==
    8 + (IF BitSet(message_flags, 2) THEN 8 ELSE 0)
      + (IF message_flags % 4 = 1 THEN 8 ELSE IF message_flags % 4 = 2 THEN 2 ELSE 0)

\* C16: Header::parse fails when the version nibble is not 0, when the
\* security-flags byte has an undefined bit (bit2, bit3, bit4) set, when the
\* session-type subfield is 2 or 3, or when the buffer is shorter than 8
\* bytes plus the announced source (8 bytes) and destination (8 or 2 bytes)
\* fields; otherwise it succeeds and consumes exactly those header bytes,
\* leaving the payload in the reader.
C16_HeaderParse ==
    codec.op = "parsed" =>
       LET buffer == codec.buffer
           fails == \/ Len(buffer) < 8
                    \/ buffer[1] \div 16 # 0
                    \/ (buffer[4] \div 4) % 8 # 0
                    \/ buffer[4] % 4 \in {2, 3}
                    \/ Len(buffer) < HeaderLen(buffer[1])
       IN  /\ codec.ret.kind = "Err" <=> fails
           /\ codec.ret.kind = "Ok" =>
                 /\ Len(Consumed) = HeaderLen(buffer[1])
                 /\ codec.rest = SubSeq(buffer, HeaderLen(buffer[1]) + 1, Len(buffer))

\* a header with source and destination node ids was parsed, and a payload
\* was left in the reader
C16_ParsedWithPayload ==
    /\ codec.op = "parsed"
    /\ codec.ret.kind = "Ok"
    /\ codec.ret.value.source.some
    /\ codec.ret.value.destination.kind = "Node"
    /\ Len(codec.rest) = MaxPayloadLen

(***************************************************************************)
(* Matter exchange header (matter-packets: payload.rs).  The specification *)
(* ExchangeSpec resolves raw (vendor id, protocol id, opcode) triples with *)
(* ProtocolOpCode::from_raw, and writes exchange headers and parses the    *)
(* bytes written, as the fuzz target does after its first parse.           *)
(***************************************************************************)
\* the opcode enums: the discriminant of each variant (`as u8`)
OpcodeValue ==
    [SecureChannel |->
        [MessageCounterSyncRequest |-> 0, MessageCounterSyncResponse |-> 1,
         MrpStandaloneAck |-> 16, PbkdfParamRequest |-> 32, PbkdfParamResponse |-> 33,
         PasePake1 |-> 34, PasePake2 |-> 35, PasePake3 |-> 36,
         CaseSigma1 |-> 48, CaseSigma2 |-> 49, CaseSigma3 |-> 50,
         CaseSigma2Resume |-> 51, StatusReport |-> 64],
     InteractionModel |->
        [StatusResponse |-> 1, ReadRequest |-> 2, SubscribeRequest |-> 3,
         SubscribeResponse |-> 4, ReportData |-> 5, WriteRequest |-> 6,
         WriteResponse |-> 7, InvokeRequest |-> 8, InvokeResponse |-> 9,
         TimedRequest |-> 10],
     Bdx |->
        [SendInit |-> 1, SendAccept |-> 2, ReceiveInit |-> 4, ReceiveAccept |-> 5,
         BlockQuery |-> 16, Block |-> 17, BlockEOF |-> 18, BlockAck |-> 19,
         BlockAckEOF |-> 20, BlockQueryWithSkip |-> 21],
     UserDirectedCommissioning |->
        [IdentificationDeclaration |-> 0]]

\* the TryFrom<u8> impls of the opcode enums: the arms of each match
OpcodeTryFrom ==
    [SecureChannel |->
        (0 :> "MessageCounterSyncRequest") @@ (1 :> "MessageCounterSyncResponse") @@
        (16 :> "MrpStandaloneAck") @@ (32 :> "PbkdfParamRequest") @@
        (33 :> "PbkdfParamResponse") @@ (34 :> "PasePake1") @@ (35 :> "PasePake2") @@
        (36 :> "PasePake3") @@ (48 :> "CaseSigma1") @@ (49 :> "CaseSigma2") @@
        (50 :> "CaseSigma3") @@ (51 :> "CaseSigma2Resume") @@ (64 :> "StatusReport"),
     InteractionModel |->
        (1 :> "StatusResponse") @@ (2 :> "ReadRequest") @@ (3 :> "SubscribeRequest") @@
        (4 :> "SubscribeResponse") @@ (5 :> "ReportData") @@ (6 :> "WriteRequest") @@
        (7 :> "WriteResponse") @@ (8 :> "InvokeRequest") @@ (9 :> "InvokeResponse") @@
        (10 :> "TimedRequest"),
     Bdx |->
        (1 :> "SendInit") @@ (2 :> "SendAccept") @@ (4 :> "ReceiveInit") @@
        (5 :> "ReceiveAccept") @@ (16 :> "BlockQuery") @@ (17 :> "Block") @@
        (18 :> "BlockEOF") @@ (19 :> "BlockAck") @@ (20 :> "BlockAckEOF") @@
        (21 :> "BlockQueryWithSkip"),
     UserDirectedCommissioning |->
        (0 :> "IdentificationDeclaration")]

\* ProtocolOpCode: a standard variant holding an opcode of its enum, or Vendor
Standard(variant, code) ==
    [variant |-> variant, code |-> code, vendor_id |-> 0, protocol |-> 0, opcode |-> 0]
Vendor(vendor_id, protocol, opcode) ==
    [variant |-> "Vendor", code |-> "", vendor_id |-> vendor_id,
     protocol |-> protocol, opcode |-> opcode]

\* SecureChannelOpcode::try_from and its three siblings
try_from(variant, value) ==
    IF value \in DOMAIN OpcodeTryFrom[variant]
    THEN Ok(Standard(variant, OpcodeTryFrom[variant][value]))
    ELSE Err("UnknownOpCode")

from_raw_VendorZeroAccepted(raw_vendor_id, raw_protocol_id, raw_opcode) ==
    IF raw_vendor_id.some
    THEN Ok(Vendor(raw_vendor_id.v, raw_protocol_id, raw_opcode))
    ELSE IF raw_protocol_id = 0 THEN try_from("SecureChannel", raw_opcode)
    ELSE IF raw_protocol_id = 1 THEN try_from("InteractionModel", raw_opcode)
    ELSE IF raw_protocol_id = 2 THEN try_from("Bdx", raw_opcode)
    ELSE IF raw_protocol_id = 3 THEN try_from("UserDirectedCommissioning", raw_opcode)
    ELSE Err("UnknownProtocolId")

from_raw(raw_vendor_id, raw_protocol_id, raw_opcode) ==
    IF raw_vendor_id.some
    THEN IF raw_vendor_id.v = 0 THEN Err("InvalidVendorId")
         ELSE Ok(Vendor(raw_vendor_id.v, raw_protocol_id, raw_opcode))
    ELSE IF raw_protocol_id = 0 THEN try_from("SecureChannel", raw_opcode)
    ELSE IF raw_protocol_id = 1 THEN try_from("InteractionModel", raw_opcode)
    ELSE IF raw_protocol_id = 2 THEN try_from("Bdx", raw_opcode)
    ELSE IF raw_protocol_id = 3 THEN try_from("UserDirectedCommissioning", raw_opcode)
    ELSE Err("UnknownProtocolId")

protocol_id(self) ==
    IF self.variant = "SecureChannel" THEN 0
    ELSE IF self.variant = "InteractionModel" THEN 1
    ELSE IF self.variant = "Bdx" THEN 2
    ELSE IF self.variant = "UserDirectedCommissioning" THEN 3
    ELSE self.protocol

protocol_opcode(self) ==
    IF self.variant = "Vendor" THEN self.opcode
    ELSE OpcodeValue[self.variant][self.code]

INITIATOR == 1
ACKNOWLEDGEMENT == 2
RELIABILITY == 4
SECURED_EXTENSIONS == 8
VENDOR == 16
ExchangeFlags ==
    BitOr(BitOr(BitOr(INITIATOR, ACKNOWLEDGEMENT), BitOr(RELIABILITY, SECURED_EXTENSIONS)),
          VENDOR)

\* Option<u32>; the counter is a sequence of two words
NoCounter == [some |-> FALSE, v |-> <<>>]
Counter(v) == [some |-> TRUE, v |-> v]

\* vendor id, ack counter and opcode resolution, read after the protocol id
ParseOptionals(flags, opcode, exchange, protocol, buffer) ==
    LET vendor == IF contains(flags, VENDOR) THEN Read(buffer, 2)
                  ELSE [ok |-> TRUE, data |-> <<>>, rest |-> buffer]
        ack == IF contains(flags, ACKNOWLEDGEMENT) THEN Read(vendor.rest, 4)
               ELSE [ok |-> TRUE, data |-> <<>>, rest |-> vendor.rest]
        resolved ==
            from_raw(IF contains(flags, VENDOR) THEN Some(read_le_u16(vendor.data)) ELSE None,
                     protocol, opcode)
    IN  IF ~vendor.ok THEN Parsed(Err("Insufficient data"), vendor.rest)
        ELSE IF ~ack.ok THEN Parsed(Err("Insufficient data"), ack.rest)
        ELSE IF resolved.kind = "Err" THEN Parsed(resolved, ack.rest)
        ELSE Parsed(Ok([flags |-> flags,
                        protocol_opcode |-> resolved.value,
                        exchange |-> exchange,
                        ack_counter |-> IF contains(flags, ACKNOWLEDGEMENT)
                                        THEN Counter(read_le_words(ack.data))
                                        ELSE NoCounter]),
                    ack.rest)

payload_Header_parse(buffer) ==
    LET b1 == Read(buffer, 1) IN
    IF ~b1.ok THEN Parsed(Err("Insufficient data"), b1.rest)
    ELSE LET flags == from_bits(ExchangeFlags, b1.data[1]) IN
    IF ~flags.some THEN Parsed(Err("Invalid exchange flags"), b1.rest)
    ELSE LET b2 == Read(b1.rest, 1) IN
    IF ~b2.ok THEN Parsed(Err("Insufficient data"), b2.rest)
    ELSE LET b3 == Read(b2.rest, 2) IN
    IF ~b3.ok THEN Parsed(Err("Insufficient data"), b3.rest)
    ELSE LET b4 == Read(b3.rest, 2) IN
    IF ~b4.ok THEN Parsed(Err("Insufficient data"), b4.rest)
    ELSE ParseOptionals(flags.v, b2.data[1], read_le_u16(b3.data),
                        read_le_u16(b4.data), b4.rest)

set_NeverClears(flags, other, value) ==
    IF value THEN BitOr(flags, other) ELSE flags

\* bitflags: set inserts or removes the bits of other
set(flags, other, value) ==
    IF value THEN BitOr(flags, other) ELSE BitAnd(flags, (U8 - 1) - other)

payload_Header_write(self) ==
    LET is_vendor == self.protocol_opcode.variant = "Vendor"
        flags == set(set(self.flags, VENDOR, is_vendor),
                     ACKNOWLEDGEMENT, self.ack_counter.some)
    IN  <<flags, protocol_opcode(self.protocol_opcode)>>
        \o write_le_u16(self.exchange)
        \o write_le_u16(protocol_id(self.protocol_opcode))
        \o (IF is_vendor THEN write_le_u16(self.protocol_opcode.vendor_id) ELSE <<>>)
        \o (IF self.ack_counter.some THEN write_le_words(self.ack_counter.v) ELSE <<>>)

\* every standard opcode, and vendor opcodes with a non-zero vendor id
OpCodes ==
    UNION {{Standard(variant, code) : code \in DOMAIN OpcodeValue[variant]} :
              variant \in DOMAIN OpcodeValue}
    \cup {Vendor(vendor_id, protocol, opcode) :
             vendor_id \in {1, 41394}, protocol \in {0, 43981}, opcode \in {0, 104}}

\* exchange headers: every flags value over the declared bits
ExchangeHeaders ==
    [flags : 0..ExchangeFlags,
     protocol_opcode : OpCodes,
     exchange : {0, 43981},
     ack_counter : {NoCounter, Counter(<<0, 0>>), Counter(<<17408, 4522>>)}]

\* raw triples: no vendor, vendor 0 and two vendors; the standard protocol
\* ids and two others; every opcode byte
RawOpCodes ==
    [raw_vendor_id : {None, Some(0), Some(1), Some(65521)},
     raw_protocol_id : {0, 1, 2, 3, 4, U16 - 1},
     raw_opcode : 0..(U8 - 1)]

ExchangeInit ==
    /\ \/ \E header \in ExchangeHeaders : codec = [op |-> "header", header |-> header]
       \/ \E raw \in RawOpCodes : codec = [op |-> "raw", raw |-> raw]
    /\ wins = <<>>
    /\ hist = <<>>
    /\ now = 0
    /\ chan = <<>>
    /\ result = NoResult

FromRaw ==
    /\ codec.op = "raw"
    /\ codec' = [op |-> "from_raw", raw |-> codec.raw,
                 ret |-> from_raw(codec.raw.raw_vendor_id, codec.raw.raw_protocol_id,
                                  codec.raw.raw_opcode)]
    /\ UNCHANGED <<wins, now, chan, result, hist>>

ExchangeWrite ==
    /\ codec.op = "header"
    /\ codec' = [op |-> "written", header |-> codec.header,
                 written |-> payload_Header_write(codec.header)]
    /\ UNCHANGED <<wins, now, chan, result, hist>>

ExchangeParse ==
    /\ codec.op = "written"
    /\ LET parsed == payload_Header_parse(codec.written) IN
       codec' = [op |-> "written-parsed", header |-> codec.header,
                 written |-> codec.written, ret |-> parsed.ret, rest |-> parsed.rest]
    /\ UNCHANGED <<wins, now, chan, result, hist>>

ExchangeNext ==
    \/ FromRaw
    \/ ExchangeWrite
    \/ ExchangeParse

ExchangeSpec == ExchangeInit /\ [][ExchangeNext]_vars

\* C17 as stated: for every exchange header H (any exchange-flags value,
\* any of the five opcode variants with a non-zero vendor id for the vendor
\* variant, ack counter present or absent), parsing the bytes produced by
\* write(H) succeeds and yields a header equal to H in flags, opcode,
\* exchange id and ack counter.
C17_ExchangeRoundTrip ==
    codec.op = "written-parsed" =>
       /\ codec.ret.kind = "Ok"
       /\ codec.ret.value.flags = codec.header.flags
       /\ codec.ret.value.protocol_opcode = codec.header.protocol_opcode
       /\ codec.ret.value.exchange = codec.header.exchange
       /\ codec.ret.value.ack_counter = codec.header.ack_counter

\* the flags of a header with its vendor bit (bit4) and acknowledgement bit
\* (bit1) replaced by what the opcode variant and the ack counter say
DerivedFlags(header) ==
    (header.flags % 2) + 4 * ((header.flags \div 4) % 4)
    + (IF header.ack_counter.some THEN 2 ELSE 0)
    + (IF header.protocol_opcode.variant = "Vendor" THEN 16 ELSE 0)

\* C17, amended: parsing the bytes produced by write(H) succeeds and yields
\* a header equal to H in opcode, exchange id and ack counter; its flags are
\* those of H with the vendor and acknowledgement bits derived from the
\* opcode variant and the presence of the ack counter, hence equal to the
\* flags of H exactly when H's two bits already agree with them.
C17_ExchangeRoundTripDerivedFlags ==
    codec.op = "written-parsed" =>
       /\ codec.ret.kind = "Ok"
       /\ codec.rest = <<>>
       /\ codec.ret.value.flags = DerivedFlags(codec.header)
       /\ codec.ret.value.protocol_opcode = codec.header.protocol_opcode
       /\ codec.ret.value.exchange = codec.header.exchange
       /\ codec.ret.value.ack_counter = codec.header.ack_counter

\* a vendor header whose flags lacked the vendor bit and carried an
\* acknowledgement bit without an ack counter went through write and parse
C17_FlagsRederived ==
    /\ codec.op = "written-parsed"
    /\ codec.header.protocol_opcode.variant = "Vendor"
    /\ codec.header.flags = 2
    /\ ~codec.header.ack_counter.some
    /\ codec.ret.kind = "Ok"
    /\ codec.ret.value.flags = 16

\* the protocol ids of the standard variants, and each enum's declared bytes
StandardVariant ==
    (0 :> "SecureChannel") @@ (1 :> "InteractionModel") @@ (2 :> "Bdx")
    @@ (3 :> "UserDirectedCommissioning")
Declared(variant) ==
    {OpcodeValue[variant][code] : code \in DOMAIN OpcodeValue[variant]}

\* C18: from_raw returns Vendor{vendor_id, protocol, opcode} whenever a
\* vendor id is given, except InvalidVendorId for vendor id 0; without a
\* vendor id it maps protocol ids 0,1,2,3 to SecureChannel, InteractionModel,
\* Bdx and UserDirectedCommissioning, fails with UnknownOpCode for an opcode
\* byte outside that protocol's declared set and with UnknownProtocolId for
\* any other protocol id; protocol_id() and protocol_opcode() of every
\* result give back the inputs.
C18_FromRaw ==
    codec.op = "from_raw" =>
       LET raw == codec.raw
           ret == codec.ret
       IN  /\ raw.raw_vendor_id.some /\ raw.raw_vendor_id.v = 0 =>
                 ret = Err("InvalidVendorId")
           /\ raw.raw_vendor_id.some /\ raw.raw_vendor_id.v # 0 =>
                 /\ ret.kind = "Ok"
                 /\ ret.value.variant = "Vendor"
                 /\ ret.value.vendor_id = raw.raw_vendor_id.v
                 /\ ret.value.protocol = raw.raw_protocol_id
                 /\ ret.value.opcode = raw.raw_opcode
           /\ ~raw.raw_vendor_id.some /\ raw.raw_protocol_id \notin 0..3 =>
                 ret = Err("UnknownProtocolId")
           /\ ~raw.raw_vendor_id.some /\ raw.raw_protocol_id \in 0..3 =>
                 LET variant == StandardVariant[raw.raw_protocol_id] IN
                 IF raw.raw_opcode \in Declared(variant)
                 THEN ret.kind = "Ok" /\ ret.value.variant = variant
                 ELSE ret = Err("UnknownOpCode")
           /\ ret.kind = "Ok" =>
                 /\ protocol_id(ret.value) = raw.raw_protocol_id
                 /\ protocol_opcode(ret.value) = raw.raw_opcode

\* the Bdx opcode 0x12 was resolved to BlockEOF
C18_BdxResolved ==
    /\ codec.op = "from_raw"
    /\ codec.ret.kind = "Ok"
    /\ codec.ret.value.variant = "Bdx"
    /\ codec.ret.value.code = "BlockEOF"
    /\ codec.raw.raw_opcode = 18

(***************************************************************************)
(* TLV structure decoding (tlv-structs: lib.rs, tlv-stream: convert.rs).   *)
(* A source is a sequence of records and a position in it: get() is the    *)
(* record at the position, next() moves to the following one and is None   *)
(* past the end.  The specification TlvSpec draws the records that follow  *)
(* a container_start and runs TopStructure::merge_decode on the stream,    *)
(* into a default structure or into one decoded before, or the derived     *)
(* merge_decode, or TopStructure::decode on the records alone.             *)
(***************************************************************************)
\* records that follow the opening container_start in the streams explored
MaxRecords == 4

Anonymous == [kind |-> "Anonymous", tag |-> 0]
ContextSpecific(tag) == [kind |-> "ContextSpecific", tag |-> tag]

\* Value: n is the number of a Signed or Unsigned, s the text of a Utf8
Value(kind, n, s) == [kind |-> kind, n |-> n, s |-> s]
Record(tag, value) == [tag |-> tag, value |-> value]

StructureStart == Record(Anonymous, Value("ContainerStart(Structure)", 0, ""))
StructureEnd == Record(Anonymous, Value("ContainerEnd", 0, ""))

\* TryFrom<Value> for u32, i16, Option<u32> and &str
try_into_u32(value) ==
    IF value.kind \notin {"Signed", "Unsigned"} THEN Err("InvalidType")
    ELSE IF value.n >= 0 /\ value.n \div U16 < U16 THEN Ok(value.n)
    ELSE Err("ConversionFailed")

try_into_i16(value) ==
    IF value.kind \notin {"Signed", "Unsigned"} THEN Err("InvalidType")
    ELSE IF value.n >= -(U16 \div 2) /\ value.n < U16 \div 2 THEN Ok(value.n)
    ELSE Err("ConversionFailed")

try_into_option_u32(value) ==
    IF value.kind = "Null" THEN Ok(None)
    ELSE LET n == try_into_u32(value) IN
         IF n.kind = "Ok" THEN Ok(Some(n.value)) ELSE n

try_into_str(value) ==
    IF value.kind # "Utf8" THEN Err("InvalidType") ELSE Ok(value.s)

ChildStructureDefault == [some_unsigned |-> None, some_signed |-> 0]
TopStructureDefault ==
    [some_nr |-> None, some_str |-> "", some_signed |-> 0,
     child |-> ChildStructureDefault,
     child2 |-> [some |-> FALSE, v |-> ChildStructureDefault]]

\* what merge_decode returns, the target it wrote and where it left the source
Decoded(ret, self, pos) == [ret |-> ret, self |-> self, pos |-> pos]

IsStructureStart(source, pos) ==
    /\ pos <= Len(source)
    /\ source[pos].value.kind = "ContainerStart(Structure)"

\* the loop of ChildStructure::merge_decode, entered with the source at pos
RECURSIVE ChildStructure_loop(_, _, _)
ChildStructure_loop(self, source, pos) ==
    LET next == pos + 1 IN
    IF next > Len(source) THEN Decoded(Ok("StreamFinished"), self, next)
    ELSE LET record == source[next] IN
    IF record.value.kind = "ContainerEnd" THEN Decoded(Ok("DataConsumed"), self, next)
    ELSE IF record.tag = ContextSpecific(1)
    THEN LET v == try_into_option_u32(record.value) IN
         IF v.kind = "Err" THEN Decoded(Err("InvalidData"), self, next)
         ELSE ChildStructure_loop([self EXCEPT !.some_unsigned = v.value], source, next)
    ELSE IF record.tag = ContextSpecific(2)
    THEN LET v == try_into_i16(record.value) IN
         IF v.kind = "Err" THEN Decoded(Err("InvalidData"), self, next)
         ELSE ChildStructure_loop([self EXCEPT !.some_signed = v.value], source, next)
    ELSE ChildStructure_loop(self, source, next)

ChildStructure_merge_decode(self, source, pos) ==
    IF ~IsStructureStart(source, pos) THEN Decoded(Err("InvalidData"), self, pos)
    ELSE ChildStructure_loop(self, source, pos)

NestingError_Never(decoded) == FALSE

\* `if decoded != DecodeEnd::DataConsumed` after a field was decoded
NestingError(decoded) == decoded # "DataConsumed"

\* a child field decoded by ChildStructure::merge_decode: the error of the
\* child, InvalidNesting when the stream ended in it, or the child's value
ChildField(child, source, pos) ==
    LET r == ChildStructure_merge_decode(child, source, pos) IN
    IF r.ret.kind = "Ok" /\ NestingError(r.ret.value)
    THEN Decoded(Err("InvalidNesting"), r.self, r.pos)
    ELSE r

OrDefault_Skipped(child2) == child2

\* `if self.child2 == None { self.child2 = Some(Default::default()); }`
OrDefault(child2) ==
    IF ~child2.some THEN [some |-> TRUE, v |-> ChildStructureDefault] ELSE child2

\* the loop of TopStructure::merge_decode
RECURSIVE TopStructure_loop(_, _, _)
TopStructure_loop(self, source, pos) ==
    LET next == pos + 1 IN
    IF next > Len(source) THEN Decoded(Ok("StreamFinished"), self, next)
    ELSE LET record == source[next] IN
    IF record.value.kind = "ContainerEnd" THEN Decoded(Ok("DataConsumed"), self, next)
    ELSE IF record.tag = ContextSpecific(1)
    THEN LET v == try_into_option_u32(record.value) IN
         IF v.kind = "Err" THEN Decoded(Err("InvalidData"), self, next)
         ELSE TopStructure_loop([self EXCEPT !.some_nr = v.value], source, next)
    ELSE IF record.tag = ContextSpecific(2)
    THEN LET v == try_into_str(record.value) IN
         IF v.kind = "Err" THEN Decoded(Err("InvalidData"), self, next)
         ELSE TopStructure_loop([self EXCEPT !.some_str = v.value], source, next)
    ELSE IF record.tag = ContextSpecific(3)
    THEN LET v == try_into_i16(record.value) IN
         IF v.kind = "Err" THEN Decoded(Err("InvalidData"), self, next)
         ELSE TopStructure_loop([self EXCEPT !.some_signed = v.value], source, next)
    ELSE IF record.tag = ContextSpecific(4)
    THEN LET r == ChildField(self.child, source, next) IN
         IF r.ret.kind = "Err"
         THEN Decoded(r.ret, [self EXCEPT !.child = r.self], r.pos)
         ELSE TopStructure_loop([self EXCEPT !.child = r.self], source, r.pos)
    ELSE IF record.tag = ContextSpecific(5)
    THEN LET ensured == [self EXCEPT !.child2 = OrDefault(self.child2)] IN
         IF ~ensured.child2.some THEN Decoded(Err("Internal"), ensured, next)
         ELSE LET r == ChildField(ensured.child2.v, source, next)
                  merged == [ensured EXCEPT !.child2.v = r.self]
              IN  IF r.ret.kind = "Err" THEN Decoded(r.ret, merged, r.pos)
                  ELSE TopStructure_loop(merged, source, r.pos)
    ELSE TopStructure_loop(self, source, next)

TopStructure_merge_decode_FromDefault(self, source, pos) ==
    IF ~IsStructureStart(source, pos) THEN Decoded(Err("InvalidData"), self, pos)
    ELSE TopStructure_loop(TopStructureDefault, source, pos)

TopStructure_merge_decode(self, source, pos) ==
    IF ~IsStructureStart(source, pos) THEN Decoded(Err("InvalidData"), self, pos)
    ELSE TopStructure_loop(self, source, pos)

\* the records between a container_start and a container_end, positioned on
\* the first
wrap_structure(source) == <<StructureStart>> \o source \o <<StructureEnd>>

TopStructure_decode(source) ==
    LET wrapped == wrap_structure(source)
        r == TopStructure_merge_decode(TopStructureDefault, wrapped, 1)
    IN  IF r.ret.kind = "Err" THEN r.ret
        ELSE IF r.ret.value = "StreamFinished" THEN Err("InvalidNesting")
        ELSE IF r.pos + 1 <= Len(wrapped) THEN Err("InvalidNesting")
        ELSE Ok(r.self)

\* the records offered: scalars for the declared tags, a null for each of
\* the optional fields, a text, the two declared child structures, a
\* container under the undeclared tag 9, and container_end
RecordInputs ==
    {Record(ContextSpecific(1), Value("Unsigned", 123, "")),
     Record(ContextSpecific(1), Value("Null", 0, "")),
     Record(ContextSpecific(2), Value("Signed", -12, "")),
     Record(ContextSpecific(2), Value("Utf8", 0, "ABC")),
     Record(ContextSpecific(3), Value("Signed", -2, "")),
     Record(ContextSpecific(4), Value("ContainerStart(Structure)", 0, "")),
     Record(ContextSpecific(5), Value("ContainerStart(Structure)", 0, "")),
     Record(ContextSpecific(5), Value("Null", 0, "")),
     Record(ContextSpecific(9), Value("ContainerStart(Structure)", 0, "")),
     StructureEnd}

\* #[derive(TlvMergeDecodable)]: the generated merge_decode, whose match on
\* the tag of a record has the catch-all arm only
RECURSIVE derived_loop(_, _, _)
derived_loop(self, source, pos) ==
    LET next == pos + 1 IN
    IF next > Len(source) THEN Decoded(Ok("StreamFinished"), self, next)
    ELSE IF source[next].value.kind = "ContainerEnd"
    THEN Decoded(Ok("DataConsumed"), self, next)
    ELSE derived_loop(self, source, next)

derive_tlv_mergedecodable(self, source, pos) ==
    IF ~IsStructureStart(source, pos) THEN Decoded(Err("InvalidData"), self, pos)
    ELSE derived_loop(self, source, pos)

\* tests::nested_decode: the first stream, the structure decoded from it,
\* and that structure after the follow-up stream was merged into it
NestedRecords ==
    <<Record(ContextSpecific(1), Value("Unsigned", 123, "")),
      Record(ContextSpecific(2), Value("Utf8", 0, "ABC")),
      Record(ContextSpecific(3), Value("Signed", -2, "")),
      Record(ContextSpecific(4), Value("ContainerStart(Structure)", 0, "")),
      Record(ContextSpecific(1), Value("Unsigned", 21, "")),
      Record(ContextSpecific(2), Value("Signed", -12, "")),
      StructureEnd>>

NestedDecoded == TopStructure_decode(NestedRecords).value

FollowUpRecords ==
    <<Record(ContextSpecific(5), Value("ContainerStart(Structure)", 0, "")),
      Record(ContextSpecific(1), Value("Unsigned", 22, "")),
      Record(ContextSpecific(2), Value("Signed", 23, "")),
      StructureEnd>>

FollowedUp ==
    TopStructure_merge_decode(NestedDecoded, wrap_structure(FollowUpRecords), 1).self

MergeTargets == {NestedDecoded, FollowedUp}

TlvInit ==
    /\ \E n \in 0..MaxRecords : \E records \in [1..n -> RecordInputs] :
          codec = [op |-> "records", records |-> records]
    /\ wins = <<>>
    /\ hist = <<>>
    /\ now = 0
    /\ chan = <<>>
    /\ result = NoResult

\* merge_decode into a default TopStructure, the source positioned on a
\* container_start that the records follow
MergeDecode ==
    /\ codec.op = "records"
    /\ LET source == <<StructureStart>> \o codec.records
           r == TopStructure_merge_decode(TopStructureDefault, source, 1)
       IN  codec' = [op |-> "merge_decode", source |-> source,
                     ret |-> r.ret, self |-> r.self, pos |-> r.pos]
    /\ UNCHANGED <<wins, now, chan, result, hist>>

Decode ==
    /\ codec.op = "records"
    /\ codec' = [op |-> "decode", source |-> codec.records,
                 ret |-> TopStructure_decode(codec.records)]
    /\ UNCHANGED <<wins, now, chan, result, hist>>

\* s.merge_decode(&mut streamer) on a structure decoded before
FollowUpMerge ==
    /\ codec.op = "records"
    /\ \E target \in MergeTargets :
          LET source == <<StructureStart>> \o codec.records
              r == TopStructure_merge_decode(target, source, 1)
          IN  codec' = [op |-> "merge_into", target |-> target, source |-> source,
                        ret |-> r.ret, self |-> r.self, pos |-> r.pos]
    /\ UNCHANGED <<wins, now, chan, result, hist>>

\* the derived merge_decode of the ChildStructure of decode_test.rs
DerivedMergeDecode ==
    /\ codec.op = "records"
    /\ LET source == <<StructureStart>> \o codec.records
           r == derive_tlv_mergedecodable(ChildStructureDefault, source, 1)
       IN  codec' = [op |-> "derived", source |-> source,
                     ret |-> r.ret, self |-> r.self, pos |-> r.pos]
    /\ UNCHANGED <<wins, now, chan, result, hist>>

TlvNext ==
    \/ MergeDecode
    \/ Decode
    \/ FollowUpMerge
    \/ DerivedMergeDecode

TlvSpec == TlvInit /\ [][TlvNext]_vars

\* containers open before record p of a source: starts less ends among the
\* records in front of it
RECURSIVE DepthAt(_, _)
DepthAt(source, p) ==
    IF p <= 1 THEN 0
    ELSE DepthAt(source, p - 1)
         + (IF source[p - 1].value.kind = "ContainerStart(Structure)" THEN 1
            ELSE IF source[p - 1].value.kind = "ContainerEnd" THEN -1 ELSE 0)

\* positions of the container_end that matches the container_start at 1
MatchingEnds(source) ==
    {p \in 2..Len(source) :
        /\ DepthAt(source, p + 1) = 0
        /\ \A q \in 2..p : DepthAt(source, q) >= 1}

\* C19: during merge_decode of a structure, a record whose tag matches no
\* declared field is skipped as one whole value: when it is a
\* container_start, every record up to and including its matching
\* container_end is consumed without being bound to any field of the
\* enclosing structure or ending it.  So merge_decode returns DataConsumed
\* only at the container_end that matches the container_start it began on,
\* and some_nr is bound only from a tag-1 record directly inside it.
C19_UndeclaredContainerSkippedWhole ==
    codec.op = "merge_decode" /\ codec.ret = Ok("DataConsumed") =>
       /\ codec.pos \in MatchingEnds(codec.source)
       /\ codec.self.some_nr.some =>
             \E p \in 2..codec.pos :
                /\ codec.source[p].tag = ContextSpecific(1)
                /\ DepthAt(codec.source, p) = 1

\* where the decoder is when it has read the records up to p: 1 in the
\* structure it began on, 2 in a declared child structure, 0 once it has
\* read the container_end of the structure it began on
RECURSIVE LevelAfter(_, _)
LevelAfter(source, p) ==
    IF p <= 1 THEN 1
    ELSE LET level == LevelAfter(source, p - 1)
             record == source[p]
         IN  IF level = 0 THEN 0
             ELSE IF record.value.kind = "ContainerEnd" THEN level - 1
             ELSE IF /\ level = 1
                     /\ record.tag \in {ContextSpecific(4), ContextSpecific(5)}
                     /\ record.value.kind = "ContainerStart(Structure)"
             THEN 2
             ELSE level

TagsConsumed(source, pos) ==
    {source[p].tag : p \in {q \in 2..Len(source) : q <= pos}}

\* C21: merge_decode changes only the fields whose tags occur in the records
\* it consumes; every other field of the target structure keeps the value it
\* had before the call, whether the call succeeds or fails.
C21_MergeChangesOnlyTaggedFields ==
    codec.op = "merge_into" =>
       LET tags == TagsConsumed(codec.source, codec.pos) IN
       /\ ContextSpecific(1) \notin tags => codec.self.some_nr = codec.target.some_nr
       /\ ContextSpecific(2) \notin tags => codec.self.some_str = codec.target.some_str
       /\ ContextSpecific(3) \notin tags =>
             codec.self.some_signed = codec.target.some_signed
       /\ ContextSpecific(4) \notin tags => codec.self.child = codec.target.child
       /\ ContextSpecific(5) \notin tags => codec.self.child2 = codec.target.child2

\* a tag-5 child was merged into the structure of tests::nested_decode:
\* child2 is set, and some_nr, some_str, some_signed and child are as before
C21_ChildTwoMerged ==
    /\ codec.op = "merge_into"
    /\ codec.target = NestedDecoded
    /\ codec.ret.kind = "Ok"
    /\ Len(codec.source) >= 2
    /\ codec.source[2].tag = ContextSpecific(5)
    /\ codec.self.child2 =
          [some |-> TRUE, v |-> [some_unsigned |-> Some(123), some_signed |-> -12]]
    /\ codec.self.some_nr = Some(123)
    /\ codec.self.some_str = "ABC"
    /\ codec.self.some_signed = -2
    /\ codec.self.child = [some_unsigned |-> Some(21), some_signed |-> -12]

\* the last record in front of position pos that carries the tag and lies
\* directly inside the structure that starts at 1 (0 when there is none)
LastDirect(source, pos, tag) ==
    LET direct == {p \in 2..Len(source) :
                      /\ p < pos
                      /\ source[p].tag = tag
                      /\ DepthAt(source, p) = 1}
    IN  IF direct = {} THEN 0
        ELSE CHOOSE p \in direct : \A q \in direct : q <= p

\* C22: the merge_decode generated by #[derive(TlvMergeDecodable)] binds each
\* record inside the structure to the field whose tlv_tag equals the tag of
\* the record: after it returned DataConsumed, some_unsigned (context:1) holds
\* the number of the last context-1 record of the structure and some_signed
\* (context:2) that of the last context-2 record.
C22_DerivedBindsTaggedFields ==
    codec.op = "derived" /\ codec.ret = Ok("DataConsumed") =>
       LET one == LastDirect(codec.source, codec.pos, ContextSpecific(1))
           two == LastDirect(codec.source, codec.pos, ContextSpecific(2))
       IN  /\ one # 0 /\ codec.source[one].value.kind = "Unsigned" =>
                 codec.self.some_unsigned = Some(codec.source[one].value.n)
           /\ two # 0 /\ codec.source[two].value.kind = "Signed" =>
                 codec.self.some_signed = codec.source[two].value.n

\* C23: decode(stream) succeeds only if the first record of the stream it
\* reads is container_start(structure) and no record remains after the
\* container_end that matches it; in every other case it returns an error.
C23_DecodeSucceedsOnlyWhenBalanced ==
    codec.op = "decode" /\ codec.ret.kind = "Ok" =>
       LET wrapped == wrap_structure(codec.source) IN
       /\ IsStructureStart(wrapped, 1)
       /\ MatchingEnds(wrapped) = {Len(wrapped)}

\* the records merge_decode read as records of the structure it began on,
\* without failing on them: those in front of the record it stopped at, and
\* that record too unless the call failed
ReadDirectly(source, ret, pos) ==
    {p \in 2..Len(source) :
        /\ LevelAfter(source, p - 1) = 1
        /\ \/ p < pos
           \/ p = pos /\ ret.kind = "Ok"}

\* the child structure decoded from the container that starts at p alone
ChildAlone(source, p) == ChildStructure_merge_decode(ChildStructureDefault, source, p)

\* C24: for every optional field of a decoded structure, scalar (some_nr,
\* tag 1) or nested structure (child2, tag 5) alike, a record with the tag of
\* the field and value null is accepted and sets the field to none, a
\* non-null record sets it to some(value), and when several records carry
\* the same tag the last one alone determines the final value of the field.
C24_OptionalFieldsLastWins ==
    codec.op = "merge_decode" =>
       LET source == codec.source
           read == ReadDirectly(source, codec.ret, codec.pos)
           offered == {p \in 2..Len(source) :
                          /\ p <= codec.pos
                          /\ LevelAfter(source, p - 1) = 1}
           last(tag) == {p \in read : /\ source[p].tag = tag
                                      /\ \A q \in read : q > p => source[q].tag # tag}
       IN  /\ \A p \in offered :
                /\ source[p].tag \in {ContextSpecific(1), ContextSpecific(5)}
                /\ source[p].value.kind = "Null"
                => p \in read
           /\ \A p \in last(ContextSpecific(1)) :
                /\ source[p].value.kind = "Null" => codec.self.some_nr = None
                /\ source[p].value.kind = "Unsigned" =>
                      codec.self.some_nr = Some(source[p].value.n)
           /\ \A p \in last(ContextSpecific(5)) :
                /\ source[p].value.kind = "Null" => ~codec.self.child2.some
                /\ source[p].value.kind = "ContainerStart(Structure)" =>
                      codec.self.child2 =
                         [some |-> TRUE, v |-> ChildAlone(source, p).self]

\* C25: for every record stream, well-formed or not, decode and merge_decode
\* never return DecodeError::Internal.
C25_NeverInternal ==
    codec.op \in {"merge_decode", "merge_into", "decode", "derived"} =>
       codec.ret # Err("Internal")

\* a tag-5 record was decoded into a structure whose child2 was None: the
\* branch that holds `return Err(DecodeError::Internal)` was passed
C25_ChildTwoCreated ==
    /\ codec.op = "merge_decode"
    /\ codec.ret = Ok("DataConsumed")
    /\ codec.source[2].tag = ContextSpecific(5)
    /\ codec.self.child2 =
          [some |-> TRUE, v |-> [some_unsigned |-> Some(123), some_signed |-> 0]]

(***************************************************************************)
(* Integer conversions of TLV values (tlv-stream: convert.rs).  A Signed   *)
(* value holds an i64 and an Unsigned value a u64: both are kept as four   *)
(* 16-bit words, most significant first, an i64 in two's complement.  A    *)
(* converted integer is kept in the words of its own width (one 8-bit word *)
(* for u8 and i8).  try_from_value_to_number hands the number to the       *)
(* integer conversion of the language, which compares it with the bounds   *)
(* of the target type and then casts it.                                   *)
(***************************************************************************)
IntType(signed, bits) == [signed |-> signed, bits |-> bits]
IntTypes == {IntType(signed, bits) : signed \in BOOLEAN, bits \in {8, 16, 32, 64}}

\* a < b for two numbers of as many words, read as unsigned
RECURSIVE LessWords(_, _)
LessWords(a, b) ==
    IF a = <<>> THEN FALSE
    ELSE IF a[1] # b[1] THEN a[1] < b[1]
    ELSE LessWords(Tail(a), Tail(b))

\* the sign bit of an i64
IsNegative(words) == words[1] >= U16 \div 2

\* a < b for two i64
LessSigned(a, b) ==
    IF IsNegative(a) # IsNegative(b) THEN IsNegative(a) ELSE LessWords(a, b)

\* 2^k - 1 in 64 bits, for k up to 64
OnesWords(k) ==
    [i \in 1..4 |->
        LET low == 16 * (4 - i) IN
        IF k >= low + 16 THEN U16 - 1
        ELSE IF k <= low THEN 0
        ELSE 2 ^ (k - low) - 1]

\* T::MAX and T::MIN, cast to 64 bits
MaxOf(type) == OnesWords(IF type.signed THEN type.bits - 1 ELSE type.bits)
MinOf(type) ==
    IF type.signed THEN [i \in 1..4 |-> U16 - 1 - MaxOf(type)[i]]
    ELSE <<0, 0, 0, 0>>

\* `u as T`: the low bits of the number
CastTo(type, words) ==
    IF type.bits = 8 THEN <<words[4] % U8>>
    ELSE SubSeq(words, 5 - type.bits \div 16, 4)

AboveMax_Never(type, words) == FALSE

\* `u > T::MAX` for a u64
AboveMax(type, words) == LessWords(MaxOf(type), words)

\* TryFrom<i64> for T
try_from_i64(type, n) ==
    IF type = IntType(TRUE, 64) THEN Ok(n)
    ELSE IF type = IntType(FALSE, 64)
    THEN IF IsNegative(n) THEN Err("ConversionFailed") ELSE Ok(n)
    ELSE IF LessSigned(n, MinOf(type)) \/ LessSigned(MaxOf(type), n)
    THEN Err("ConversionFailed")
    ELSE Ok(CastTo(type, n))

\* TryFrom<u64> for T
try_from_u64(type, n) ==
    IF type = IntType(FALSE, 64) THEN Ok(n)
    ELSE IF AboveMax(type, n) THEN Err("ConversionFailed")
    ELSE Ok(CastTo(type, n))

\* TryFrom<Value> for T, T one of u8..u64, i8..i64
try_from_value_to_number(type, value) ==
    IF value.kind = "Signed" THEN try_from_i64(type, value.words)
    ELSE IF value.kind = "Unsigned" THEN try_from_u64(type, value.words)
    ELSE Err("InvalidType")

\* the values converted: numbers around the bounds of every width, and
\* values that are no integers
LowWords == {0, 1, 127, 128, 255, 256, 32767, 32768, 65407, 65408, 65535}
HighWords == {0, 1, 32767, 32768, 65535}
ConvertValues ==
    {[kind |-> kind, words |-> <<a, b, c, d>>] :
        kind \in {"Signed", "Unsigned"},
        a \in HighWords, b \in HighWords, c \in HighWords, d \in LowWords}
    \cup {[kind |-> kind, words |-> <<0, 0, 0, 0>>] :
            kind \in {"Null", "Bool", "Float", "Utf8", "ContainerEnd",
                      "ContainerStart(Structure)"}}

ConvertInit ==
    /\ \E type \in IntTypes : \E value \in ConvertValues :
          codec = [op |-> "value", type |-> type, value |-> value]
    /\ wins = <<>>
    /\ hist = <<>>
    /\ now = 0
    /\ chan = <<>>
    /\ result = NoResult

Convert ==
    /\ codec.op = "value"
    /\ codec' = [op |-> "converted", type |-> codec.type, value |-> codec.value,
                 ret |-> try_from_value_to_number(codec.type, codec.value)]
    /\ UNCHANGED <<wins, now, chan, result, hist>>

ConvertNext == Convert

ConvertSpec == ConvertInit /\ [][ConvertNext]_vars

\* words + 1, wrapping
RECURSIVE Increment(_)
Increment(words) ==
    IF words = <<>> THEN <<>>
    ELSE LET n == Len(words) IN
         IF words[n] < U16 - 1 THEN [words EXCEPT ![n] = words[n] + 1]
         ELSE Append(Increment(SubSeq(words, 1, n - 1)), 0)

\* the integer that the words of a number of the type stand for: its sign
\* and its magnitude, the magnitude in 64 bits
IntegerOf(type, words) ==
    LET wide == IF type.bits = 8
                THEN <<IF type.signed /\ words[1] >= U8 \div 2
                       THEN U16 - U8 + words[1] ELSE words[1]>>
                ELSE words
        neg == type.signed /\ wide[1] >= U16 \div 2
        full == [i \in 1..4 |->
                    IF i > 4 - Len(wide) THEN wide[i - (4 - Len(wide))]
                    ELSE IF neg THEN U16 - 1 ELSE 0]
    IN  IF neg THEN [neg |-> TRUE, mag |-> Increment([i \in 1..4 |-> U16 - 1 - full[i]])]
        ELSE [neg |-> FALSE, mag |-> full]

\* the integer lies in the range of the type
Representable(a, type) ==
    IF ~type.signed THEN ~a.neg /\ ~LessWords(OnesWords(type.bits), a.mag)
    ELSE IF a.neg THEN ~LessWords(Increment(OnesWords(type.bits - 1)), a.mag)
    ELSE ~LessWords(OnesWords(type.bits - 1), a.mag)

\* C26: converting a signed or unsigned TLV integer value a to an integer
\* type T (u8..u64, i8..i64) succeeds if and only if a is representable in
\* T, the result then equals a, and it fails with ConversionFailed
\* otherwise; a value that is no integer fails with InvalidType.
C26_IntegerConversion ==
    codec.op = "converted" =>
       IF codec.value.kind \notin {"Signed", "Unsigned"}
       THEN codec.ret = Err("InvalidType")
       ELSE LET a == IntegerOf(IntType(codec.value.kind = "Signed", 64),
                                codec.value.words) IN
            IF Representable(a, codec.type)
            THEN /\ codec.ret.kind = "Ok"
                 /\ Len(codec.ret.value) = (IF codec.type.bits = 8 THEN 1
                                            ELSE codec.type.bits \div 16)
                 /\ IntegerOf(codec.type, codec.ret.value) = a
            ELSE codec.ret = Err("ConversionFailed")

\* Signed(-128) was converted to the i8 -128, the least value of the type
C26_LeastI8Converted ==
    /\ codec.op = "converted"
    /\ codec.type = IntType(TRUE, 8)
    /\ codec.value = [kind |-> "Signed", words |-> <<65535, 65535, 65535, 65408>>]
    /\ codec.ret = Ok(<<128>>)

(***************************************************************************)
(* Endian writer and reader (matter-packets: writer.rs, reader.rs).  A     *)
(* SliceLittleEndianWriter is a destination of fixed length and an offset. *)
(* The specification EndianSpec writes numbers of mixed widths into a      *)
(* writer of some capacity, some of them not fitting, and then reads the   *)
(* written bytes back, number by number.  A number of 2, 4 or 8 bytes is   *)
(* its 16-bit words, most significant first; one of 1 byte is that byte.   *)
(***************************************************************************)
\* length of the destination slice, and writes attempted on one writer
MaxCapacity == 16
MaxWrites == 3

InsufficientSpace(missing) == [kind |-> "InsufficientSpace", missing |-> missing]

SliceLittleEndianWriter(buffer, offset) == [buffer |-> buffer, offset |-> offset]

\* SliceLittleEndianWriter::new
SliceLittleEndianWriter_new(buffer) == SliceLittleEndianWriter(buffer, 0)

\* a write that copies the part of the data that fits before it fails
SliceLittleEndianWriter_write_Partial(self, data) ==
    LET fits == Len(self.buffer) - self.offset IN
    IF Len(data) > fits
    THEN [ret |-> Err(InsufficientSpace(Len(data) - fits)),
          self |-> SliceLittleEndianWriter(
                      [i \in 1..Len(self.buffer) |->
                          IF i > self.offset THEN data[i - self.offset]
                          ELSE self.buffer[i]],
                      Len(self.buffer))]
    ELSE [ret |-> Ok("()"),
          self |-> SliceLittleEndianWriter(
                      [i \in 1..Len(self.buffer) |->
                          IF i > self.offset /\ i <= self.offset + Len(data)
                          THEN data[i - self.offset] ELSE self.buffer[i]],
                      self.offset + Len(data))]

\* SliceLittleEndianWriter::write: the result and the writer after the call
SliceLittleEndianWriter_write(self, data) ==
    IF Len(data) + self.offset > Len(self.buffer)
    THEN [ret |-> Err(InsufficientSpace(Len(data) + self.offset - Len(self.buffer))),
          self |-> self]
    ELSE [ret |-> Ok("()"),
          self |-> SliceLittleEndianWriter(
                      [i \in 1..Len(self.buffer) |->
                          IF i > self.offset /\ i <= self.offset + Len(data)
                          THEN data[i - self.offset] ELSE self.buffer[i]],
                      self.offset + Len(data))]

\* write_le_u8 .. write_le_u64: the bytes handed to write
write_le(width, number) ==
    IF width = 1 THEN <<number[1]>> ELSE write_le_words(number)

\* read_le_u8 .. read_le_u64 on a byte source: the number or the error, and
\* the source after the call
read_le(width, source) ==
    LET r == Read(source, width) IN
    IF ~r.ok THEN [ret |-> Err("InsufficientData"), rest |-> r.rest]
    ELSE [ret |-> Ok(IF width = 1 THEN <<r.data[1]>> ELSE read_le_words(r.data)),
          rest |-> r.rest]

\* the numbers written: those of tests::slice_writer, and the least and the
\* greatest of a width
Numbers ==
    {[width |-> 1, number |-> <<255>>], [width |-> 1, number |-> <<0>>],
     [width |-> 2, number |-> <<43707>>], [width |-> 2, number |-> <<65535>>],
     [width |-> 4, number |-> <<4660, 22136>>], [width |-> 4, number |-> <<0, 123>>],
     [width |-> 8, number |-> <<4386, 13124, 21862, 30600>>]}

\* the writes that succeeded, in the order they were made
RECURSIVE Written(_)
Written(log) ==
    IF log = <<>> THEN <<>>
    ELSE IF log[1].ret.kind = "Ok"
    THEN <<[width |-> log[1].width, number |-> log[1].number]>> \o Written(Tail(log))
    ELSE Written(Tail(log))

EndianInit ==
    /\ \E capacity \in 0..MaxCapacity :
          codec = [op |-> "writer",
                   writer |-> SliceLittleEndianWriter_new([i \in 1..capacity |-> 0]),
                   log |-> <<>>]
    /\ wins = <<>>
    /\ hist = <<>>
    /\ now = 0
    /\ chan = <<>>
    /\ result = NoResult

\* writer.write_le_u8 / u16 / u32 / u64
WriteLe ==
    /\ codec.op = "writer"
    /\ Len(codec.log) < MaxWrites
    /\ \E n \in Numbers :
          LET r == SliceLittleEndianWriter_write(codec.writer, write_le(n.width, n.number))
          IN  codec' = [op |-> "writer", writer |-> r.self,
                        log |-> Append(codec.log, [width |-> n.width,
                                                   number |-> n.number,
                                                   ret |-> r.ret])]
    /\ UNCHANGED <<wins, now, chan, result, hist>>

\* the written bytes, buffer[0..written()], become the source of a reader
StartReading ==
    /\ codec.op = "writer"
    /\ codec' = [op |-> "reader",
                 written |-> Written(codec.log),
                 source |-> SubSeq(codec.writer.buffer, 1, codec.writer.offset),
                 read |-> <<>>]
    /\ UNCHANGED <<wins, now, chan, result, hist>>

\* source.read_le_u8 / u16 / u32 / u64, of the width of the next written one
ReadLe ==
    /\ codec.op = "reader"
    /\ Len(codec.read) < Len(codec.written)
    /\ LET r == read_le(codec.written[Len(codec.read) + 1].width, codec.source)
       IN  codec' = [codec EXCEPT !.source = r.rest, !.read = Append(@, r.ret)]
    /\ UNCHANGED <<wins, now, chan, result, hist>>

EndianNext ==
    \/ WriteLe
    \/ StartReading
    \/ ReadLe

EndianSpec == EndianInit /\ [][EndianNext]_vars

\* C27: for every width N in {1,2,4,8} bytes and every value v of that
\* width, write_le_uN(v) into a slice writer followed by read_le_uN over the
\* written bytes yields v, and a sequence of mixed-width writes is read back
\* in the same order with the same values, the last read using up the bytes.
C27_WrittenIsReadBack ==
    codec.op = "reader" =>
       /\ \A i \in 1..Len(codec.read) : codec.read[i] = Ok(codec.written[i].number)
       /\ Len(codec.read) = Len(codec.written) => codec.source = <<>>

\* the writes of tests::slice_writer, u32 then u16 then u64, were read back
C27_MixedWidthsReadBack ==
    /\ codec.op = "reader"
    /\ codec.read = <<Ok(<<4660, 22136>>), Ok(<<43707>>),
                      Ok(<<4386, 13124, 21862, 30600>>)>>

\* C28: a SliceLittleEndianWriter write that does not fit fails with
\* InsufficientSpace{missing = data length + bytes already written -
\* capacity} and leaves the destination bytes and written() unchanged; a
\* write that fits, also after one that failed, succeeds and puts its bytes
\* at the offset that written() gave before it.
C28_OverflowLeavesWriter ==
    [][codec.op = "writer" /\ codec'.op = "writer" =>
          LET entry == codec'.log[Len(codec'.log)]
              data == write_le(entry.width, entry.number)
              before == codec.writer
              after == codec'.writer
          IN  IF Len(data) + before.offset > Len(before.buffer)
              THEN /\ entry.ret = Err(InsufficientSpace(
                                         Len(data) + before.offset - Len(before.buffer)))
                   /\ after = before
              ELSE /\ entry.ret = Ok("()")
                   /\ after.offset = before.offset + Len(data)
                   /\ SubSeq(after.buffer, before.offset + 1, after.offset) = data
                   /\ \A i \in 1..Len(before.buffer) :
                         i <= before.offset \/ i > after.offset =>
                            after.buffer[i] = before.buffer[i]]_vars

\* tests::slice_writer_overflow, continued: in a writer of 3 bytes a u32 did
\* not fit (1 byte missing), then a u16 was written at offset 0
C28_WriteAfterOverflow ==
    /\ codec.op = "writer"
    /\ Len(codec.writer.buffer) = 3
    /\ Len(codec.log) = 2
    /\ codec.log[1].ret = Err(InsufficientSpace(1))
    /\ codec.log[2].ret = Ok("()")
    /\ codec.writer = SliceLittleEndianWriter(<<187, 170, 0>>, 2)

(***************************************************************************)
(* BLE advertising data (matter-btp: advertising_data.rs).  The            *)
(* specification AdvertisingSpec draws a buffer and runs                   *)
(* Commissionable::parse on it.                                            *)
(***************************************************************************)
\* longest advertising buffer explored (the payload has 8 bytes)
MaxAdvertisingLen == 9

ADDITIONAL_DATA == 1
ComissionableFlags == ADDITIONAL_DATA

Commissionable(discriminator, vendor_id, product_id, flags) ==
    [discriminator |-> discriminator, vendor_id |-> vendor_id,
     product_id |-> product_id, flags |-> flags]

version_Ignored(version_and_discriminator) == 0

\* (version_and_discriminator >> 12) & 0x0F
version(version_and_discriminator) ==
    BitAnd(version_and_discriminator \div 4096, 15)

Commissionable_parse(data) ==
    IF Len(data) < 8 THEN Err("Advertising data too short")
    ELSE IF data[1] # 0 THEN Err("Unsupported opcode")
    ELSE LET version_and_discriminator == read_le_u16(SubSeq(data, 2, 3))
             vendor_id == read_le_u16(SubSeq(data, 4, 5))
             product_id == read_le_u16(SubSeq(data, 6, 7))
             flags == from_bits(ComissionableFlags, data[8])
         IN  IF version(version_and_discriminator) # 0
             THEN Err("Unsupported commissionable payload version")
             ELSE IF ~flags.some THEN Err("Unable to parse flags")
             ELSE Ok(Commissionable(
                        BitAnd(version_and_discriminator, 4095),
                        IF vendor_id = 0 THEN None ELSE Some(vendor_id),
                        IF product_id = 0 THEN None ELSE Some(product_id),
                        flags.v))

\* advertising buffers: the payloads of the parse example with each field
\* varied, cut or extended to every length up to MaxAdvertisingLen
AdvertisingBuffers ==
    {Pad(<<opcode, low, high>> \o vendor \o product \o <<flags>>, n) :
        opcode \in {0, 1, U8 - 1},
        low \in {210, 138, 0, U8 - 1},
        high \in {4, 12, 15, 16, 20, 240, U8 - 1},
        vendor \in {<<0, 0>>, <<17, 34>>, <<0, 1>>},
        product \in {<<0, 0>>, <<51, 68>>, <<1, 0>>},
        flags \in {0, 1, 2, 3, 128, U8 - 1},
        n \in 0..MaxAdvertisingLen}

AdvertisingInit ==
    /\ \E data \in AdvertisingBuffers : codec = [op |-> "advertised", data |-> data]
    /\ wins = <<>>
    /\ hist = <<>>
    /\ now = 0
    /\ chan = <<>>
    /\ result = NoResult

ParseCommissionable ==
    /\ codec.op = "advertised"
    /\ codec' = [op |-> "Commissionable::parse", data |-> codec.data,
                 ret |-> Commissionable_parse(codec.data)]
    /\ UNCHANGED <<wins, now, chan, result, hist>>

AdvertisingNext == ParseCommissionable

AdvertisingSpec == AdvertisingInit /\ [][AdvertisingNext]_vars

\* C29: Commissionable::parse fails for a buffer shorter than 8 bytes, an
\* opcode other than 0, a non-zero version nibble (the high nibble of the
\* third byte) or any reserved flag bit (bits 1-7 of the eighth byte) set;
\* otherwise it returns the 12-bit discriminator (always at most 0x0FFF),
\* the vendor and product ids with 0 mapped to none, and the
\* additional-data flag.
C29_CommissionableParse ==
    codec.op = "Commissionable::parse" =>
       LET data == codec.data IN
       IF \/ Len(data) < 8
          \/ data[1] # 0
          \/ data[3] \div 16 # 0
          \/ data[8] \div 2 # 0
       THEN codec.ret.kind = "Err"
       ELSE /\ codec.ret.kind = "Ok"
            /\ codec.ret.value.discriminator = data[2] + 256 * (data[3] % 16)
            /\ codec.ret.value.discriminator <= 4095
            /\ codec.ret.value.vendor_id =
                  (IF data[4] = 0 /\ data[5] = 0 THEN None
                   ELSE Some(data[4] + 256 * data[5]))
            /\ codec.ret.value.product_id =
                  (IF data[6] = 0 /\ data[7] = 0 THEN None
                   ELSE Some(data[6] + 256 * data[7]))
            /\ codec.ret.value.flags = data[8] % 2

\* the second payload of the parse example was parsed: discriminator 3210,
\* vendor 0x2211, product 0x4433, additional data
C29_ExampleParsed ==
    /\ codec.op = "Commissionable::parse"
    /\ codec.ret = Ok(Commissionable(3210, Some(8721), Some(17459), ADDITIONAL_DATA))

\* C30: a handshake response whose selected window size is less than 2 is
\* rejected at handshake: Response::parse fails on it, so that no
\* BtpWindowState is created from a window size outside [2,255].
C30_SmallWindowRejected ==
    /\ codec.op = "Response::parse"
    /\ Len(codec.buffer) = 6
    /\ codec.buffer[6] < 2
    => codec.ret.kind = "Err"

C34_WaitIsRemainingTime ==
    \A side \in DOMAIN wins : \A data \in PacketData, build \in Builds :
        LET self    == wins[side]
            r       == prepare_send(self, data, now, build)
            elapsed == now - self.sent_packets.last_seen_time
        IN  /\ r.kind # "Panic"
            /\ r.kind = "Wait"
                 => /\ r.duration >= 0
                    /\ r.duration =
                         IF \/ SentUnacked(side) >= self.window_size
                            \/ /\ ReceivedUnacked(side) = 0
                               /\ SentUnacked(side) + 1 = self.window_size
                         THEN IDLE_TIMEOUT - elapsed
                         ELSE ACK_SEND_TIMEOUT - elapsed

\* C34 witness: with the window full and the clock advanced by the ack
\* delay, prepare_send has returned Wait for the rest of the idle timeout.
C34_WaitedRestOfIdleTimeout ==
    /\ result.op = "prepare_send" /\ result.kind = "Wait"
    /\ SentUnacked(result.side) >= wins[result.side].window_size
    /\ now - wins[result.side].sent_packets.last_seen_time = ACK_SEND_TIMEOUT
    /\ result.duration = IDLE_TIMEOUT - ACK_SEND_TIMEOUT

\* C36: whenever prepare_send(None) returns Send, the Send carries an ack
\* number and received.unacked was above 0 before the call: a frame with
\* neither payload nor acknowledgement is never emitted.
C36_NoEmptyFrame ==
    \A side \in DOMAIN wins : \A build \in Builds :
        LET r == prepare_send(wins[side], "None", now, build) IN
        r.kind = "Send" => (r.ack_number.some /\ ReceivedUnacked(side) > 0)

(***************************************************************************)
(* What a packet_received call leaves behind.                              *)
(***************************************************************************)
\* C37: a packet_received call that fails, because of an unexpected
\* sequence number or an ack out of range, leaves the window state (both
\* packet windows, received.last_packet_number included) exactly as it was
\* before the call.
C37_FailedReceiveChangesNothing ==
    [][\A side \in DOMAIN wins :
         (ReceiveStep(side) /\ result'.kind # "Ok")
         => wins'[side] = wins[side]]_vars

\* C38: a prepare_send call that returns Wait or the idle-timeout error
\* changes nothing in the window state; only a call that returns Send
\* modifies it, advancing sent.last_packet_number by exactly 1 (mod 256)
\* and marking the received packets acknowledged, with the window size, the
\* acknowledged position of the sent window and the latest received packet
\* number left alone.
C38_OnlySendModifies ==
    [][\A side \in DOMAIN wins :
         SendStep(side)
         => /\ (result'.kind \in {"Wait", "IdleTimeout"})
                 => (wins'[side] = wins[side])
            /\ (wins'[side] # wins[side]) => (result'.kind = "Send")
            /\ (result'.kind = "Send")
                 => /\ wins'[side].sent_packets.last_packet_number
                         = (wins[side].sent_packets.last_packet_number + 1) % U8
                    /\ result'.sequence_number
                         = wins'[side].sent_packets.last_packet_number
                    /\ wins'[side].sent_packets.ack_number
                         = wins[side].sent_packets.ack_number
                    /\ wins'[side].received_packets.last_packet_number
                         = wins[side].received_packets.last_packet_number
                    /\ wins'[side].received_packets.ack_number
                         = wins[side].received_packets.last_packet_number
                    /\ wins'[side].window_size = wins[side].window_size]_vars

\* C38 witness: on a window state that has sent and received, a call has
\* returned Wait or the idle-timeout error and the latest packet number
\* sent is still the one of the latest Send.
C38_RefusedAfterTraffic ==
    /\ result.op = "prepare_send"
    /\ result.kind \in {"Wait", "IdleTimeout"}
    /\ hist[result.side].sends >= 2
    /\ hist[result.side].recvs >= 1
    /\ wins[result.side].sent_packets.last_packet_number
          = hist[result.side].lastSeq

\* C39: after any sequence of successful packet_received calls interleaved
\* with prepare_send calls, received.unacked never exceeds window_size (the
\* packet that would take it beyond is rejected).
C39_ReceivedWithinWindow ==
    \A side \in DOMAIN wins :
        ~hist[side].failed
        => ReceivedUnacked(side) <= wins[side].window_size

(***************************************************************************)
(* A peer that keeps sending.  One window state accepts packet after       *)
(* packet, each with the expected sequence number and no ack, before its   *)
(* first Send; prepare_send may be called at any point.                    *)
(***************************************************************************)
\* packets received and unacknowledged up to which the peer keeps sending
MaxOverrun == 254

Overrun(side) ==
    /\ hist[side].sends = 0
    /\ unacknowledged_count(wins[side].received_packets) < MaxOverrun
    /\ LET seq == wrapping_add(wins[side].received_packets.last_packet_number, 1)
           r   == packet_received(wins[side], seq, None, now)
       IN  /\ wins' = [wins EXCEPT ![side] = r.self]
           /\ result' = ReceiveResult(side, seq, None, r)
           /\ hist' = [hist EXCEPT ![side] = AfterReceive(@, seq, None, r)]
    /\ UNCHANGED <<now, chan, codec>>

OverrunNext ==
    \/ \E side \in DOMAIN wins : Overrun(side)
    \/ \E side \in DOMAIN wins, data \in PacketData : PrepareSend(side, data)

OverrunSpec == Init /\ [][OverrunNext]_vars

\* C40: in every state reachable through packet_received and prepare_send,
\* the 8-bit sums prepare_send evaluates there, sent.unacked + 1 in the
\* last-slot rule and received.unacked + 2 in the ack-delay rule, do not
\* exceed 255.
C40_SumsFitInU8 ==
    \A side \in DOMAIN wins :
        LET self == wins[side] IN
        (~IdleTimedOut(self, now) /\ ~WindowFull(self))
        => /\ (ReceivedUnacked(side) = 0) => (SentUnacked(side) + 1 < U8)
           /\ ~LastSlotWithoutAck(self) => (ReceivedUnacked(side) + 2 < U8)

(***************************************************************************)
(* tlv-stream: optional host values into a Value (convert.rs).  The call   *)
(* stack of one conversion is followed frame by frame.                     *)
(***************************************************************************)
\* frames of `from` the stack holds before it overflows
MaxFrames == 8

\* the types from_option_into_value! is invoked for
OptionTypes ==
    {"i8", "i16", "i32", "i64", "u8", "u16", "u32", "u64", "f32", "f64",
     "&str", "&[u8]", "&String", "&Vec<u8>"}

\* samples of a host value of each type (the number, or the length of the
\* text or of the bytes)
HostSamples == {0, 1}

\* Value<'a> as built from a host value
HostValue(kind, v) == [kind |-> kind, v |-> v]
Null == HostValue("Null", 0)

\* from_type_to_value! and the From impls of the slices and the std types
from_type_to_value(type, v) ==
    IF type \in {"i8", "i16", "i32", "i64"} THEN HostValue("Signed", v)
    ELSE IF type \in {"u8", "u16", "u32", "u64"} THEN HostValue("Unsigned", v)
    ELSE IF type = "f32" THEN HostValue("Float", v)
    ELSE IF type = "f64" THEN HostValue("Double", v)
    ELSE IF type \in {"&str", "&String"} THEN HostValue("Utf8", v)
    ELSE HostValue("Bytes", v)

\* Option<$type>
OptionNone(type) == [type |-> type, some |-> FALSE, v |-> 0]
OptionSome(type, v) == [type |-> type, some |-> TRUE, v |-> v]
OptionInputs ==
    {OptionNone(type) : type \in OptionTypes}
    \cup {OptionSome(type, v) : type \in OptionTypes, v \in HostSamples}

OptionInit ==
    /\ \E value \in OptionInputs :
          codec = [op |-> "option", value |-> value, frames |-> 0, ret |-> Null]
    /\ wins = <<>>
    /\ hist = <<>>
    /\ now = 0
    /\ chan = <<>>
    /\ result = NoResult

\* `let value: Value = value.into();`: Into::into calls
\* <Value as From<Option<$type>>>::from
OptionInto ==
    /\ codec.op = "option"
    /\ codec' = [codec EXCEPT !.op = "from", !.frames = 1]
    /\ UNCHANGED <<wins, now, chan, result, hist>>

\* the body of `from`, arm `None => Value::Null`: the frame returns
from_option_into_value_None ==
    /\ codec.op = "from"
    /\ ~codec.value.some
    /\ codec' = [codec EXCEPT !.op = "returned", !.frames = @ - 1, !.ret = Null]
    /\ UNCHANGED <<wins, now, chan, result, hist>>

\* the body of `from`, arm `x => x.into()`: x is the Option<$type> itself
\* and the value asked for is a Value, so into() is the same `from` again,
\* with the same argument, in a new frame
from_option_into_value_Some ==
    /\ codec.op = "from"
    /\ codec.value.some
    /\ codec.frames < MaxFrames
    /\ codec' = [codec EXCEPT !.frames = @ + 1]
    /\ UNCHANGED <<wins, now, chan, result, hist>>

\* no room for another frame: the process is aborted
StackOverflow ==
    /\ codec.op = "from"
    /\ codec.value.some
    /\ codec.frames >= MaxFrames
    /\ codec' = [codec EXCEPT !.op = "stack overflow"]
    /\ UNCHANGED <<wins, now, chan, result, hist>>

OptionNext ==
    \/ OptionInto
    \/ from_option_into_value_None
    \/ from_option_into_value_Some
    \/ StackOverflow

\* a call that has been made keeps executing
OptionSpec == OptionInit /\ [][OptionNext]_vars /\ WF_vars(OptionNext)

\* C35: converting an optional host value to a Value always terminates:
\* every call returns, None as Null and Some(v) as the value that
\* converting v directly gives.
C35_OptionIntoReturns ==
    \A value \in OptionInputs :
        (codec.op = "from" /\ codec.value = value)
        ~> (/\ codec.op = "returned"
            /\ codec.ret = IF value.some
                           THEN from_type_to_value(value.type, value.v)
                           ELSE Null)

(***************************************************************************)
(* matter-btp lib.rs: BlePeripheralConnection::handshake over the          *)
(* notification stream of the peripheral.  The peer and the transport are  *)
(* free to notify, to stay silent or to end the stream; the clock counts   *)
(* the seconds since the request was written.                              *)
(***************************************************************************)
\* notifications waiting in the stream
MaxNotifications == 2
\* seconds the clock is followed after the request has been written
MaxWait == 6

\* seconds; the constant is commented out in the source
SESSION_HANDSHAKE_RESPONSE_TIMEOUT == 5

\* BtpHandshakeResponse::parse of lib.rs
BtpHandshakeResponse_parse(buffer) ==
    IF Len(buffer) # 6 THEN Err("Invalid data length")
    ELSE IF buffer[1] # HANDSHAKE_RESPONSE THEN Err("Invalid response flags")
    ELSE IF buffer[2] # MANAGEMENT_OPCODE THEN Err("Invalid management opcode")
    ELSE IF buffer[3] # BTP_PROTOCOL_VERSION THEN Err("Invalid protocol")
    ELSE Ok(Response(buffer[4], buffer[5], buffer[6]))

\* ValueNotification { uuid, value }
ValueNotification(uuid, value) == [uuid |-> uuid, value |-> value]

\* what the peripheral may notify: on the READ characteristic or on another
\* one, the response of the handshake example, one of another protocol, or
\* nothing
NotificationInputs ==
    {ValueNotification(uuid, value) :
        uuid \in {"READ", "COMMISSIONING_DATA"},
        value \in {<<HANDSHAKE_RESPONSE, MANAGEMENT_OPCODE,
                     BTP_PROTOCOL_VERSION, 210, 4, 21>>,
                   <<HANDSHAKE_RESPONSE, MANAGEMENT_OPCODE,
                     BTP_PROTOCOL_VERSION + 1, 210, 4, 21>>,
                   <<>>}}

\* a connection as BlePeripheralConnection::new returns it
HandshakeInit ==
    /\ codec = [op |-> "Discovered", notifications |-> <<>>, ended |-> FALSE,
                elapsed |-> 0, ret |-> Ok(<<>>)]
    /\ wins = <<>>
    /\ hist = <<>>
    /\ now = 0
    /\ chan = <<>>
    /\ result = NoResult

\* self.raw_write(request).await?
raw_write(written) ==
    /\ codec.op = "Discovered"
    /\ codec' = IF written
                THEN [codec EXCEPT !.op = "Subscribing", !.elapsed = 0]
                ELSE [codec EXCEPT !.op = "Failed", !.ret = Err("write")]
    /\ UNCHANGED <<wins, now, chan, result, hist>>

\* self.peripheral.subscribe(&self.read_characteristic).await?
subscribe(subscribed) ==
    /\ codec.op = "Subscribing"
    /\ codec' = IF subscribed
                THEN [codec EXCEPT !.op = "Reading"]
                ELSE [codec EXCEPT !.op = "Failed", !.ret = Err("subscribe")]
    /\ UNCHANGED <<wins, now, chan, result, hist>>

\* one turn of the loop of read() with an item ready in the stream, and the
\* rest of handshake() when read() returns: a READ notification is parsed,
\* any other one is logged and dropped
read_Notification ==
    /\ codec.op = "Reading"
    /\ codec.notifications # <<>>
    /\ LET value  == Head(codec.notifications)
           parsed == BtpHandshakeResponse_parse(value.value)
       IN  codec' =
             IF value.uuid # "READ"
             THEN [codec EXCEPT !.notifications = Tail(@)]
             ELSE [codec EXCEPT !.notifications = Tail(@),
                                !.op = IF parsed.kind = "Ok" THEN "Open"
                                       ELSE "Failed",
                                !.ret = parsed]
    /\ UNCHANGED <<wins, now, chan, result, hist>>

\* the loop of read() when the stream has ended: Err("No more data")
read_NoMoreData ==
    /\ codec.op = "Reading"
    /\ codec.notifications = <<>>
    /\ codec.ended
    /\ codec' = [codec EXCEPT !.op = "Failed", !.ret = Err("No more data")]
    /\ UNCHANGED <<wins, now, chan, result, hist>>

\* the request has been written and handshake() has not returned
HandshakeSent == codec.op \in {"Subscribing", "Reading"}

\* the peripheral notifies
Notify(notification) ==
    /\ HandshakeSent
    /\ ~codec.ended
    /\ Len(codec.notifications) < MaxNotifications
    /\ codec' = [codec EXCEPT !.notifications = Append(@, notification)]
    /\ UNCHANGED <<wins, now, chan, result, hist>>

\* the peripheral disconnects: the stream ends after what it holds
Disconnect ==
    /\ HandshakeSent
    /\ ~codec.ended
    /\ codec' = [codec EXCEPT !.ended = TRUE]
    /\ UNCHANGED <<wins, now, chan, result, hist>>

\* a second passes while handshake() is pending
Second ==
    /\ HandshakeSent
    /\ codec.elapsed < MaxWait
    /\ codec' = [codec EXCEPT !.elapsed = @ + 1]
    /\ UNCHANGED <<wins, now, chan, result, hist>>

\* the steps handshake() takes by itself
HandshakeSteps ==
    \/ \E written \in BOOLEAN : raw_write(written)
    \/ \E subscribed \in BOOLEAN : subscribe(subscribed)
    \/ read_Notification
    \/ read_NoMoreData

HandshakeNext ==
    \/ HandshakeSteps
    \/ \E notification \in NotificationInputs : Notify(notification)
    \/ Disconnect
    \/ Second

\* the future is polled whenever it can make progress and time passes; the
\* peer owes nothing
HandshakeSpec ==
    HandshakeInit /\ [][HandshakeNext]_vars
        /\ WF_vars(HandshakeSteps) /\ WF_vars(Second)

\* C31: after the handshake request has been written, handshake()
\* completes, with the parsed response or with an error, within the
\* handshake-response deadline, whether or not the peer ever notifies: a
\* call still pending when the deadline is reached returns, and the
\* connection does not stay in HandshakeSent forever.
C31_HandshakeCompletesInTime ==
    (HandshakeSent /\ codec.elapsed >= SESSION_HANDSHAKE_RESPONSE_TIMEOUT)
    ~> (codec.op \in {"Open", "Failed"})

====
